---- MODULE Spec2Model ----
(***************************************************************************)
(* A model of the decoding core of mc2skos (mc2skos/record.py):            *)
(*   - ClassificationRecord.parse_008, the decoder of the 008 fixed field; *)
(*   - ClassificationRecord.parse_153, the scan over the subfields of the  *)
(*     153 field that builds table, notation and parent notation;          *)
(*   - the part of ClassificationRecord.parse that calls both and guesses  *)
(*     the record type when the record has no 008 field.                   *)
(*                                                                         *)
(* Python strings are TLA+ strings; s[i] is Char(s, i).  Python's None and *)
(* the exceptions are the sentinel strings below, which no subfield text   *)
(* and no 008 value of the model contains.                                 *)
(***************************************************************************)
EXTENDS Integers, Sequences, FiniteSets, TLC

VARIABLES
    value008,        \* text of controlfield 008, None when the record has none
    fields153,       \* the 153 fields of the record in document order, each a list of subfields
    pc,              \* position in ClassificationRecord.parse
    exc,             \* the exception that ended parse, NoExc while none
    idx,             \* number of subfields of buf already scanned
    table, add_table, notation, parent_notation, caption, is_top_concept, mode,
    created, record_type, number_type, display, synthesized, deprecated,
    fields765,       \* the 765 fields of the record in document order, each a list of subfields
    components,      \* self.components
    pc765,           \* position in the loop over the 765 fields
    entry765,        \* index of the 765 field being scanned (the loop runs from the last to the first)
    idx765,          \* number of subfields of that field already scanned
    table765, rootno, \* the local variables table and rootno of the loop
    entries,         \* Vocabularies.entries: scheme code -> ConceptScheme
    default_scheme,  \* Vocabularies.default_scheme
    pcV,             \* "init" before load_yaml, "loaded" between calls, "returned" after a call
    call,            \* the call made last: its name and arguments
    retScheme,       \* the ConceptScheme a get or get_from_record call returned
    retUri,          \* the string a uri call returned
    excV,            \* the exception the call raised
    in_file,         \* the records that get_records(in_file) yields, in order
    main_options,    \* the keyword arguments main passes to every process_record call
    graph,           \* the triples of the rdflib Graph
    bnodes,          \* number of blank nodes made so far
    pcG,             \* position in the record loop of main and in process_record
    idxG,            \* number of records the loop has finished with
    rec,             \* the Record of the process_record call under way
    excG,            \* the exception process_record raised
    added            \* the triples that the add_to_graph call made last passed to graph.add

vars765 == <<fields765, components, pc765, entry765, idx765, table765, rootno>>

varsV == <<entries, default_scheme, pcV, call, retScheme, retUri, excV>>

varsG == <<in_file, main_options, graph, bnodes, pcG, idxG, rec, excG, added>>

vars == <<value008, fields153, pc, exc, idx,
          table, add_table, notation, parent_notation, caption, is_top_concept, mode,
          created, record_type, number_type, display, synthesized, deprecated,
          vars765, varsV, varsG>>

locals153 == <<table, add_table, notation, parent_notation, caption, is_top_concept, mode>>
result008 == <<created, record_type, number_type, display, synthesized, deprecated>>

None == "<None>"
NoExc == "<no exception>"
TypeError == "TypeError"
ValueError == "ValueError"
IndexError == "IndexError"
InvalidRecordError == "InvalidRecordError"
UnknownSchemeError == "UnknownSchemeError"   \* a subclass of InvalidRecordError
KeyError == "KeyError"
Absent == "<absent>"   \* a keyword argument the caller does not pass

(***************************************************************************)
(* Bounds of the model.                                                    *)
(***************************************************************************)
MaxLen == 3            \* longest 153 field drawn from the full subfield alphabet
MaxFields765 == 2      \* most 765 fields of a record
MaxSubs765 == 3        \* most subfields of the 765 fields of a record, taken together

(***************************************************************************)
(* mc2skos/constants.py                                                    *)
(***************************************************************************)
SCHEDULE_RECORD == "schedule_record"
TABLE_RECORD == "table_record"
INTERNAL_SUMMARY_OF_SCHEDULE_NUMBER == "internal_summary_of_schedule_number"
EXTERNAL_SUMMARY == "external_summary"
INTERNAL_SUMMARY_OF_TABLE_NUMBER == "internal_summary_of_table_number"
MANUAL_NOTE_RECORD == "manual_note_record"
UNKNOWN == "unknown"
SINGLE_NUMBER == "single_number"
NUMBER_SPAN == "number_span"
SUMMARY_NUMBER_SPAN == "summary_number_span"

(***************************************************************************)
(* Python string primitives.                                               *)
(***************************************************************************)
\* a + b on str operands; TypeError when an operand is None
Add(a, b) ==
    IF a \in {None, TypeError} \/ b \in {None, TypeError} THEN TypeError ELSE a \o b

\* s[i], 0-based; IndexError past the end
Char(s, i) ==
    IF i < Len(s) THEN SubSeq(s, i + 1, i + 1) ELSE IndexError

\* s[:n]
Prefix(s, n) ==
    SubSeq(s, 1, IF Len(s) < n THEN Len(s) ELSE n)

Digits == {"0", "1", "2", "3", "4", "5", "6", "7", "8", "9"}

DigitVal(c) ==
    CASE c = "0" -> 0 [] c = "1" -> 1 [] c = "2" -> 2 [] c = "3" -> 3 [] c = "4" -> 4
      [] c = "5" -> 5 [] c = "6" -> 6 [] c = "7" -> 7 [] c = "8" -> 8 [] c = "9" -> 9
      [] OTHER -> 0

(***************************************************************************)
(* ClassificationRecord.parse_008                                          *)
(***************************************************************************)
\* number of days of a month in the year 19yy / 20yy that %y stands for
\* (of the years 1969..2068 every one divisible by 4 is a leap year)
DaysIn(month, yy) ==
    IF month = 2 THEN (IF yy % 4 = 0 THEN 29 ELSE 28)
    ELSE IF month \in {4, 6, 9, 11} THEN 30
    ELSE 31

\* datetime.strptime(s, '%y%m%d'): ValueError, or the date (as its ISO text).
\* The directives match \d\d, 1[0-2]|0[1-9]|[1-9] and
\* 3[01]|[12]\d|0[1-9]|[1-9]| [1-9]; the whole of s has to be consumed.
Strptime(s) ==
    IF Len(s) # 6 THEN ValueError
    ELSE LET y1 == Char(s, 0)
             y2 == Char(s, 1)
             m1 == Char(s, 2)
             m2 == Char(s, 3)
             d1 == Char(s, 4)
             d2 == Char(s, 5)
             yy == 10 * DigitVal(y1) + DigitVal(y2)
             month == 10 * DigitVal(m1) + DigitVal(m2)
             day == 10 * DigitVal(d1) + DigitVal(d2)
             yOk == y1 \in Digits /\ y2 \in Digits
             mOk == \/ m1 = "1" /\ m2 \in {"0", "1", "2"}
                    \/ m1 = "0" /\ m2 \in Digits \ {"0"}
             dOk == \/ d1 = "3" /\ d2 \in {"0", "1"}
                    \/ d1 \in {"1", "2"} /\ d2 \in Digits
                    \/ d1 \in {"0", " "} /\ d2 \in Digits \ {"0"}
         IN IF ~(yOk /\ mOk /\ dOk) THEN ValueError
            ELSE IF day > DaysIn(month, yy) THEN ValueError
            ELSE (IF yy >= 69 THEN "19" ELSE "20") \o y1 \o y2 \o "-" \o m1 \o m2
                     \o "-" \o (IF d1 = " " THEN "0" ELSE d1) \o d2

\* value[6]
RecordTypeOf(c) ==
    IF c = "a" THEN SCHEDULE_RECORD
    ELSE IF c = "b" THEN TABLE_RECORD
    ELSE IF c = "e" THEN EXTERNAL_SUMMARY
    ELSE IF c = "i" THEN INTERNAL_SUMMARY_OF_SCHEDULE_NUMBER
    ELSE IF c = "j" THEN INTERNAL_SUMMARY_OF_TABLE_NUMBER
    ELSE IF c = "m" THEN MANUAL_NOTE_RECORD
    ELSE IF c = "1" THEN SCHEDULE_RECORD
    ELSE UNKNOWN

\* value[7]
NumberTypeOf(c) ==
    IF c = "a" THEN SINGLE_NUMBER
    ELSE IF c = "b" THEN NUMBER_SPAN
    ELSE IF c = "c" THEN SUMMARY_NUMBER_SPAN
    ELSE UNKNOWN

\* value[8]
DeprecatedOf(c) == c = "d" \/ c = "e"

\* value[12]
SynthesizedOf(c) == c = "b"

\* DisplayOf with position 13 = b hidden, as the earlier revision had it
DisplayOf_BHidden(c13, c7) ==
    IF c13 = "a" THEN TRUE
    ELSE IF c13 = "b" THEN FALSE
    ELSE IF c13 = "h" THEN FALSE
    ELSE IF c7 = "n" THEN FALSE
    ELSE FALSE

\* DisplayOf with value[7] = n displayed
DisplayOf_NShown(c13, c7) ==
    IF c13 = "a" THEN TRUE
    ELSE IF c13 = "b" THEN TRUE
    ELSE IF c13 = "h" THEN FALSE
    ELSE IF c7 = "n" THEN TRUE
    ELSE FALSE

\* value[13], and value[7] when value[13] is none of a, b, h
DisplayOf(c13, c7) ==
    IF c13 = "a" THEN TRUE
    ELSE IF c13 = "b" THEN TRUE
    ELSE IF c13 = "h" THEN FALSE
    ELSE IF c7 = "n" THEN FALSE
    ELSE FALSE

Raised008(e) ==
    [exc |-> e, created |-> None, record_type |-> None, number_type |-> None,
     display |-> FALSE, synthesized |-> FALSE, deprecated |-> FALSE]

\* parse_008 reading the synthesized flag one position too far
parse_008_Synth13(value) ==
    IF value = None
    THEN [exc |-> NoExc, created |-> None, record_type |-> None, number_type |-> None,
          display |-> TRUE, synthesized |-> FALSE, deprecated |-> FALSE]
    ELSE IF Strptime(Prefix(value, 6)) = ValueError THEN Raised008(ValueError)
    ELSE IF Len(value) < 14 THEN Raised008(IndexError)
    ELSE [exc |-> NoExc,
          created |-> Strptime(Prefix(value, 6)),
          record_type |-> RecordTypeOf(Char(value, 6)),
          number_type |-> NumberTypeOf(Char(value, 7)),
          display |-> DisplayOf(Char(value, 13), Char(value, 7)),
          synthesized |-> SynthesizedOf(Char(value, 13)),
          deprecated |-> DeprecatedOf(Char(value, 8))]

\* the returned tuple, or the exception in exc
parse_008(value) ==
    IF value = None
    THEN [exc |-> NoExc, created |-> None, record_type |-> None, number_type |-> None,
          display |-> TRUE, synthesized |-> FALSE, deprecated |-> FALSE]
    ELSE IF Strptime(Prefix(value, 6)) = ValueError THEN Raised008(ValueError)
    ELSE IF Len(value) < 14 THEN Raised008(IndexError)
    ELSE [exc |-> NoExc,
          created |-> Strptime(Prefix(value, 6)),
          record_type |-> RecordTypeOf(Char(value, 6)),
          number_type |-> NumberTypeOf(Char(value, 7)),
          display |-> DisplayOf(Char(value, 13), Char(value, 7)),
          synthesized |-> SynthesizedOf(Char(value, 12)),
          deprecated |-> DeprecatedOf(Char(value, 8))]

(***************************************************************************)
(* ClassificationRecord.parse_153: one iteration of the loop over buf per  *)
(* subfield.  l holds the local variables; raised is set when the branch   *)
(* ends in a TypeError (None + str, str + None).                           *)
(***************************************************************************)
Locals(t, at, n, p, c, top, m) ==
    [table |-> t, add_table |-> at, notation |-> n, parent_notation |-> p,
     caption |-> c, is_top_concept |-> top, mode |-> m, raised |-> FALSE]

\* the local variables at `mode = 'notation'`, before the loop
Start153 == Locals(None, None, None, None, None, TRUE, "notation")

Raise153(l) == [l EXCEPT !.raised = TRUE]

OnZ(l, value) == [l EXCEPT !.table = value]

OnY(l, value) == [l EXCEPT !.add_table = value]

\* OnA without the special case of add table 1
OnA_NoBareColon(l, value) ==
    LET n1 == IF l.add_table # None THEN Add(l.notation, ":" \o l.add_table \o ";")
              ELSE IF l.table # None THEN l.table \o "--"
              ELSE ""
        n2 == Add(n1, value)
    IN IF n2 = TypeError THEN Raise153(l)
       ELSE [l EXCEPT !.notation = n2, !.add_table = None]

OnA(l, value) ==
    LET n1 == IF l.add_table = "1" THEN Add(l.notation, ":")
              ELSE IF l.add_table # None THEN Add(l.notation, ":" \o l.add_table \o ";")
              ELSE IF l.table # None THEN l.table \o "--"
              ELSE ""
        n2 == Add(n1, value)
    IN IF n2 = TypeError THEN Raise153(l)
       ELSE [l EXCEPT !.notation = n2, !.add_table = None]

\* OnC without the '-' before the value
OnC_NoHyphen(l, value) ==
    LET n == Add(l.notation, value)
    IN IF n = TypeError THEN Raise153(l) ELSE [l EXCEPT !.notation = n]

OnC(l, value) ==
    LET n == Add(Add(l.notation, "-"), value)
    IN IF n = TypeError THEN Raise153(l) ELSE [l EXCEPT !.notation = n]

OnE(l, value) ==
    LET p1 == IF l.add_table = "1" THEN ":"
              ELSE IF l.add_table # None THEN ";" \o l.add_table \o ":"
              ELSE IF l.table # None THEN l.table \o "--"
              ELSE ""
        p2 == Add(p1, value)
    IN IF p2 = TypeError THEN Raise153(l)
       ELSE [l EXCEPT !.parent_notation = p2, !.add_table = None, !.mode = "parent"]

OnF(l, value) ==
    LET p == Add(Add(l.parent_notation, "-"), value)
    IN IF p = TypeError THEN Raise153(l) ELSE [l EXCEPT !.parent_notation = p]

OnJ(l, value) == [l EXCEPT !.caption = value]

\* OnH that also falls into the else branch
OnH_LeavesMode(l, value) == [l EXCEPT !.is_top_concept = FALSE, !.mode = "other"]

OnH(l, value) == [l EXCEPT !.is_top_concept = FALSE]

OnOther(l, value) == [l EXCEPT !.mode = "other"]

\* Step153 whose c branch does not look at the mode
Step153_CAnyMode(l, sf) ==
    IF sf.code = "z" THEN OnZ(l, sf.value)
    ELSE IF sf.code = "y" THEN OnY(l, sf.value)
    ELSE IF sf.code = "a" /\ l.mode = "notation" THEN OnA(l, sf.value)
    ELSE IF sf.code = "c" THEN OnC(l, sf.value)
    ELSE IF sf.code = "e" /\ l.mode \in {"notation", "parent"} THEN OnE(l, sf.value)
    ELSE IF sf.code = "f" /\ l.mode = "parent" THEN OnF(l, sf.value)
    ELSE IF sf.code = "j" THEN OnJ(l, sf.value)
    ELSE IF sf.code = "h" THEN OnH(l, sf.value)
    ELSE OnOther(l, sf.value)

\* Step153 whose e branch does not look at the mode
Step153_EAnyMode(l, sf) ==
    IF sf.code = "z" THEN OnZ(l, sf.value)
    ELSE IF sf.code = "y" THEN OnY(l, sf.value)
    ELSE IF sf.code = "a" /\ l.mode = "notation" THEN OnA(l, sf.value)
    ELSE IF sf.code = "c" /\ l.mode = "notation" THEN OnC(l, sf.value)
    ELSE IF sf.code = "e" THEN OnE(l, sf.value)
    ELSE IF sf.code = "f" /\ l.mode = "parent" THEN OnF(l, sf.value)
    ELSE IF sf.code = "j" THEN OnJ(l, sf.value)
    ELSE IF sf.code = "h" THEN OnH(l, sf.value)
    ELSE OnOther(l, sf.value)

\* the if/elif chain of the loop body
Step153(l, sf) ==
    IF sf.code = "z" THEN OnZ(l, sf.value)
    ELSE IF sf.code = "y" THEN OnY(l, sf.value)
    ELSE IF sf.code = "a" /\ l.mode = "notation" THEN OnA(l, sf.value)
    ELSE IF sf.code = "c" /\ l.mode = "notation" THEN OnC(l, sf.value)
    ELSE IF sf.code = "e" /\ l.mode \in {"notation", "parent"} THEN OnE(l, sf.value)
    ELSE IF sf.code = "f" /\ l.mode = "parent" THEN OnF(l, sf.value)
    ELSE IF sf.code = "j" THEN OnJ(l, sf.value)
    ELSE IF sf.code = "h" THEN OnH(l, sf.value)
    ELSE OnOther(l, sf.value)

\* Finish153 without the check of parent_notation
Finish153_KeepTop(l) == l

\* the statements after the loop
Finish153(l) ==
    IF l.parent_notation # None THEN [l EXCEPT !.is_top_concept = FALSE] ELSE l

RECURSIVE Scan153(_, _)
\* the loop over buf, stopped by the first TypeError
Scan153(l, buf) ==
    IF buf = <<>> \/ l.raised THEN l
    ELSE Scan153(Step153(l, Head(buf)), Tail(buf))

\* parse_153 as a function of the subfield list; raised tells a TypeError
parse_153(buf) ==
    LET l == Scan153(Start153, buf)
    IN IF l.raised THEN l ELSE Finish153(l)

(***************************************************************************)
(* ClassificationRecord.parse, the loop over the 765 fields: one iteration *)
(* of the inner loop per subfield.  st holds self.components and the local *)
(* variables table and rootno; raised is set when the branch ends in a     *)
(* TypeError.                                                              *)
(***************************************************************************)
\* '{0}'.format(v)
Format(v) == IF v = None THEN "None" ELSE v

St765(c, t, r) == [components |-> c, table |-> t, rootno |-> r, raised |-> FALSE]

Raise765(st) == [st EXCEPT !.raised = TRUE]

\* InsertPoint with the test len(tmp) > 4
InsertPoint_LongerThan4(tmp) ==
    IF Len(tmp) > 4 THEN SubSeq(tmp, 1, 3) \o "." \o SubSeq(tmp, 4, Len(tmp)) ELSE tmp

\* tmp[:3] + '.' + tmp[3:] when tmp is longer than three characters
InsertPoint(tmp) ==
    IF Len(tmp) > 3 THEN SubSeq(tmp, 1, 3) \o "." \o SubSeq(tmp, 4, Len(tmp)) ELSE tmp

\* On765B without the test len(self.components) == 0
On765B_Always(st, text) ==
    LET c == Add(st.table, text)
    IN IF c = TypeError THEN Raise765(st)
       ELSE [st EXCEPT !.components = Append(@, c), !.table = ""]

On765B(st, text) ==
    IF Len(st.components) = 0
    THEN LET c == Add(st.table, text)
         IN IF c = TypeError THEN Raise765(st)
            ELSE [st EXCEPT !.components = Append(@, c), !.table = ""]
    ELSE st

On765R(st, text) == [st EXCEPT !.rootno = text]

\* On765Z that adds to the table prefix set before
On765Z_Added(st, text) == [st EXCEPT !.table = @ \o Format(text) \o "--"]

On765Z(st, text) == [st EXCEPT !.table = Format(text) \o "--"]

\* On765S without the table prefix
On765S_NoTable(st, text) ==
    IF text = None THEN st
    ELSE LET tmp == Add(st.rootno, text)
         IN IF tmp = TypeError THEN Raise765(st)
            ELSE [st EXCEPT !.components = Append(@, InsertPoint(tmp)), !.table = ""]

On765S(st, text) ==
    IF text = None THEN st
    ELSE LET tmp == Add(st.rootno, text)
         IN IF tmp = TypeError THEN Raise765(st)
            ELSE [st EXCEPT !.components = Append(@, st.table \o InsertPoint(tmp)),
                            !.table = ""]

\* the if/elif chain of the inner loop
Step765(st, sf) ==
    IF sf.code = "b" THEN On765B(st, sf.value)
    ELSE IF sf.code = "r" THEN On765R(st, sf.value)
    ELSE IF sf.code = "z" THEN On765Z(st, sf.value)
    ELSE IF sf.code = "s" THEN On765S(st, sf.value)
    ELSE st

RECURSIVE Entry765(_, _)
\* the inner loop over the subfields of one 765 field, stopped by a TypeError
Entry765(st, subfields) ==
    IF subfields = <<>> \/ st.raised THEN st
    ELSE Entry765(Step765(st, Head(subfields)), Tail(subfields))

RECURSIVE Loop765(_, _)
\* the loop over reversed(fields), started with the components c
Loop765(c, fields) ==
    IF fields = <<>> THEN St765(c, "", "")
    ELSE LET st == Entry765(St765(c, "", ""), fields[Len(fields)])
         IN IF st.raised THEN st ELSE Loop765(st.components, SubSeq(fields, 1, Len(fields) - 1))

(***************************************************************************)
(* mc2skos/vocabularies.py: ConceptScheme.                                 *)
(***************************************************************************)
\* a or b, on values that are None or strings
Or(a, b) == IF a \in {None, ""} THEN b ELSE a

RECURSIVE StripNonDigits(_)
\* re.sub('[^0-9]', '', str)
StripNonDigits(str) ==
    IF Len(str) = 0 THEN ""
    ELSE (IF SubSeq(str, 1, 1) \in Digits THEN SubSeq(str, 1, 1) ELSE "")
             \o StripNonDigits(SubSeq(str, 2, Len(str)))

\* an options dictionary; a key it lacks reads as None through options.get
Options(base_uri, concept, scheme, whitespace) ==
    [base_uri |-> base_uri, concept |-> concept, scheme |-> scheme, whitespace |-> whitespace]

\* ConceptScheme.__init__
ConceptScheme(concept_type, code, edition, options) ==
    [type |-> concept_type,
     code |-> code,
     edition |-> edition,
     options |-> options,
     edition_numeric |-> StripNonDigits(Or(edition, "")),
     uri_templates |-> [concept |-> Or(options.concept, options.base_uri),
                        scheme |-> Or(options.scheme, options.base_uri)],
     whitespace |-> Or(options.whitespace, "-")]

\* the value of a variable that holds no ConceptScheme
NoScheme == ConceptScheme(None, None, None, Options(None, None, None, None))

with_edition(self, edition) == ConceptScheme(self.type, self.code, edition, self.options)

\* the keyword arguments of ConceptScheme.uri
Kwargs(collection, object, control_number, edition) ==
    [collection |-> collection, object |-> object,
     control_number |-> control_number, edition |-> edition]

\* kwargs['edition'] = self.edition_numeric with the caller's value kept when given
EditionKwarg_CallerFirst(self, kwargs) ==
    IF kwargs.edition = Absent THEN [kwargs EXCEPT !.edition = self.edition_numeric] ELSE kwargs

\* kwargs['edition'] = self.edition_numeric
EditionKwarg(self, kwargs) == [kwargs EXCEPT !.edition = self.edition_numeric]

\* SchemeControlNumber without the assignment
SchemeControlNumber_Kept(uri_type, kwargs) == kwargs

\* if uri_type == 'scheme': kwargs['control_number'] = ''
SchemeControlNumber(uri_type, kwargs) ==
    IF uri_type = "scheme" THEN [kwargs EXCEPT !.control_number = ""] ELSE kwargs

\* re.sub(r'^\(.+\)(.+)$', '\\1', str): the greedy .+ runs to the last ')' that
\* has a character between it and the leading '(' and a character after it
StripOrganization(str) ==
    LET closing == {j \in 3..(Len(str) - 1) : SubSeq(str, j, j) = ")"}
    IN IF Len(str) > 0 /\ SubSeq(str, 1, 1) = "(" /\ closing # {}
       THEN LET last == CHOOSE j \in closing : \A k \in closing : k <= j
            IN SubSeq(str, last + 1, Len(str))
       ELSE str

\* if kwargs.get('control_number') is not None: strip the organization prefix
ControlNumberKwarg(kwargs) ==
    IF kwargs.control_number \in {Absent, None} THEN kwargs
    ELSE [kwargs EXCEPT !.control_number = StripOrganization(@)]

IsExc(v) == v \in {TypeError, ValueError, KeyError, IndexError, UnknownSchemeError}

ParamChars ==
    {"a", "b", "c", "d", "e", "f", "g", "h", "i", "j", "k", "l", "m", "n", "o", "p", "q",
     "r", "s", "t", "u", "v", "w", "x", "y", "z", "_"}

\* length of the longest prefix of str matched by [a-z_]*
ParamLen(str) ==
    LET stops == {i \in 1..Len(str) : SubSeq(str, i, i) \notin ParamChars}
    IN IF stops = {} THEN Len(str) ELSE (CHOOSE i \in stops : \A k \in stops : i <= k) - 1

RECURSIVE IntOf(_)
\* int(str) for a string of digits
IntOf(str) ==
    IF Len(str) = 0 THEN 0
    ELSE 10 * IntOf(SubSeq(str, 1, Len(str) - 1)) + DigitVal(SubSeq(str, Len(str), Len(str)))

AllDigits(str) == \A i \in 1..Len(str) : SubSeq(str, i, i) \in Digits

\* first position of ch in str, 0 when str has none
Find(str, ch) ==
    LET at == {i \in 1..Len(str) : SubSeq(str, i, i) = ch}
    IN IF at = {} THEN 0 ELSE CHOOSE i \in at : \A k \in at : i <= k

NoMatch == [matched |-> FALSE, param |-> "", start |-> None, end |-> None]

\* the groups of \{(?P<param>[a-z_]+)(?:\[(?P<start>\d+)?:(?P<end>\d+)?\])?\} matched
\* against '{' + body + '}'; a group that took no part is None.  The templates
\* of the model carry no format specification ((?P<formatter>[:!][^\}]+)?).
MatchPlaceholder(body) ==
    LET n == ParamLen(body)
        rest == SubSeq(body, n + 1, Len(body))
        inner == SubSeq(rest, 2, Len(rest) - 1)
        colon == Find(inner, ":")
        start == SubSeq(inner, 1, colon - 1)
        end == SubSeq(inner, colon + 1, Len(inner))
    IN IF n = 0 THEN NoMatch
       ELSE IF Len(rest) = 0
       THEN [matched |-> TRUE, param |-> SubSeq(body, 1, n), start |-> None, end |-> None]
       ELSE IF /\ Len(rest) >= 3
               /\ SubSeq(rest, 1, 1) = "[" /\ SubSeq(rest, Len(rest), Len(rest)) = "]"
               /\ colon > 0 /\ AllDigits(start) /\ AllDigits(end)
       THEN [matched |-> TRUE, param |-> SubSeq(body, 1, n),
             start |-> IF Len(start) = 0 THEN None ELSE start,
             end |-> IF Len(end) = 0 THEN None ELSE end]
       ELSE NoMatch

\* value[start:end], start and end being None or strings of digits
Slice(value, start, end) ==
    LET lo == IF start = None THEN 0 ELSE IntOf(start)
        hi == IF end = None \/ IntOf(end) > Len(value) THEN Len(value) ELSE IntOf(end)
    IN IF lo >= hi THEN "" ELSE SubSeq(value, lo + 1, hi)

\* kwargs[name]
Lookup(kwargs, name) ==
    IF name \in DOMAIN kwargs THEN kwargs[name] ELSE Absent

\* process_formatter: the text that replaces a placeholder, or the exception
\* of kwargs[param] (KeyError) or of the subscript on None (TypeError)
process_formatter(m, kwargs) ==
    LET value == Lookup(kwargs, m.param)
    IN IF value = Absent THEN KeyError
       ELSE IF value = None THEN TypeError
       ELSE Slice(value, m.start, m.end)

RECURSIVE ReSub(_, _)
\* re.sub(placeholder pattern, process_formatter, template): the text before
\* the first '{' is kept; a placeholder that starts there is replaced and the
\* scan goes on behind its '}', else the '{' is kept and the scan goes on
\* behind it
ReSub(template, kwargs) ==
    LET open == Find(template, "{")
        after == SubSeq(template, open + 1, Len(template))
        close == Find(after, "}")
        m == IF close > 0 THEN MatchPlaceholder(SubSeq(after, 1, close - 1)) ELSE NoMatch
        text == IF m.matched THEN process_formatter(m, kwargs) ELSE "{"
        rest == ReSub(SubSeq(after, (IF m.matched THEN close ELSE 0) + 1, Len(after)), kwargs)
    IN IF open = 0 THEN template
       ELSE IF IsExc(text) THEN text
       ELSE IF IsExc(rest) THEN rest
       ELSE SubSeq(template, 1, open - 1) \o text \o rest

\* str.format(**kwargs) on a string without braces returns it; a brace left by
\* re.sub is a replacement field that raises or is looked up, which the model
\* does not tell apart
StrFormat(str) ==
    IF Find(str, "{") > 0 \/ Find(str, "}") > 0 THEN ValueError ELSE str

RECURSIVE Replace(_, _, _)
\* str.replace(old, new) for a one-character old
Replace(str, old, new) ==
    LET at == Find(str, old)
    IN IF at = 0 THEN str
       ELSE SubSeq(str, 1, at - 1) \o new \o Replace(SubSeq(str, at + 1, Len(str)), old, new)

\* ConceptScheme.uri: the string returned or the exception raised
uri(self, uri_type, kwargs) ==
    IF uri_type \notin DOMAIN self.uri_templates THEN ValueError
    ELSE IF self.uri_templates[uri_type] = None THEN UnknownSchemeError
    ELSE LET kw == ControlNumberKwarg(SchemeControlNumber(uri_type, EditionKwarg(self, kwargs)))
             uri_template == ReSub(self.uri_templates[uri_type], kw)
             formatted == IF IsExc(uri_template) THEN uri_template ELSE StrFormat(uri_template)
         IN IF IsExc(formatted) THEN formatted
            ELSE Replace(formatted, " ", self.whitespace)

(***************************************************************************)
(* mc2skos/vocabularies.py: Vocabularies.                                  *)
(***************************************************************************)
\* the result of a method: the entries it leaves, and the scheme it returns or
\* the exception it raises
Outcome(e, scheme, raised) == [entries |-> e, scheme |-> scheme, exc |-> raised]

\* Vocabularies.load_yaml on parsed YAML data, a list of
\* (concept type key, scheme code, options) in file order
RECURSIVE load_yaml(_, _)
load_yaml(e, data) ==
    IF data = <<>> THEN e
    ELSE LET item == Head(data)
             concept_type == CASE item.key = "classification_schemes" -> "ClassificationRecord"
                               [] item.key = "subject_schemes" -> "AuthorityRecord"
                               [] OTHER -> None
             options == IF "str" \in DOMAIN item.options
                        THEN Options(item.options.str, None, None, None)
                        ELSE item.options.dict
             with == [k \in DOMAIN e \cup {item.code} |->
                         IF k = item.code
                         THEN ConceptScheme(concept_type, item.code, None, options)
                         ELSE e[k]]
         IN load_yaml(with, Tail(data))

\* Vocabularies.get
get(e, scheme_code, edition) ==
    IF scheme_code = "n" THEN Outcome(e, NoScheme, UnknownSchemeError)
    ELSE IF scheme_code \notin DOMAIN e THEN Outcome(e, NoScheme, UnknownSchemeError)
    ELSE IF edition # None
    THEN LET key == scheme_code \o "-" \o edition
             with == IF key \notin DOMAIN e
                     THEN [k \in DOMAIN e \cup {key} |->
                              IF k = key THEN with_edition(e[scheme_code], edition) ELSE e[k]]
                     ELSE e
         IN Outcome(with, with[key], NoExc)
    ELSE Outcome(e, e[scheme_code], NoExc)

\* field_008[11]
Code008(field_008) == Char(field_008, 11)

\* Vocabularies.get_from_record; record holds the class of the record and the
\* texts of 008, 040 $f, 084 $a and 084 $c
get_from_record(e, default, record) ==
    IF default # NoScheme THEN Outcome(e, default, NoExc)
    ELSE IF /\ record.class = "AuthorityRecord"
            /\ record.field_008 \notin {None, ""}
            /\ Code008(record.field_008) = IndexError
    THEN Outcome(e, NoScheme, IndexError)
    ELSE IF /\ record.class = "AuthorityRecord"
            /\ record.field_008 \notin {None, ""}
            /\ (IF Code008(record.field_008) = "z" THEN record.f040
                ELSE Code008(record.field_008)) \notin {None, ""}
    THEN get(e, IF Code008(record.field_008) = "z" THEN record.f040
                ELSE Code008(record.field_008), None)
    ELSE IF record.class = "ClassificationRecord" /\ record.a084 \notin {None, ""}
    THEN get(e, record.a084, record.c084)
    ELSE Outcome(e, NoScheme, UnknownSchemeError)

\* Vocabularies.set_default_scheme: the default scheme it leaves
set_default_scheme(e, generic, concept, scheme, whitespace) ==
    IF generic = None /\ concept = None /\ scheme = None THEN NoScheme
    ELSE IF scheme # None /\ scheme \in DOMAIN e THEN e[scheme]
    ELSE ConceptScheme(None, None, None, Options(generic, concept, scheme, whitespace))

(***************************************************************************)
(* mc2skos/mc2skos.py: Record, the object that process_record decodes a    *)
(* record into and adds to the graph.                                      *)
(***************************************************************************)
default_uri_templates ==
    [ddc |-> [uri |-> "http://dewey.info/{collection}/{object}/e{edition}/"]]

RECURSIVE FormatFields(_, _)
\* str.format(**kwargs) on a template of {name} fields; None is written 'None'
FormatFields(template, kwargs) ==
    LET open == Find(template, "{")
        after == SubSeq(template, open + 1, Len(template))
        close == Find(after, "}")
        name == SubSeq(after, 1, close - 1)
        rest == FormatFields(SubSeq(after, close + 1, Len(after)), kwargs)
    IN IF open = 0 THEN template
       ELSE IF close = 0 THEN ValueError
       ELSE IF name \notin DOMAIN kwargs THEN KeyError
       ELSE IF IsExc(rest) THEN rest
       ELSE SubSeq(template, 1, open - 1) \o Format(kwargs[name]) \o rest

\* rdflib terms, written as in N-Triples
URIRef(str) == "<" \o str \o ">"

Literal(text, lang) == "'" \o text \o "'" \o (IF lang = None THEN "" ELSE "@" \o lang)

BNode(n) == "_:b" \o ToString(n)

RDF_type == "rdf:type"
RDF_first == "rdf:first"
RDF_rest == "rdf:rest"
RDF_nil == "rdf:nil"
SKOS_Concept == "skos:Concept"
SKOS_topConceptOf == "skos:topConceptOf"
SKOS_inScheme == "skos:inScheme"
SKOS_broader == "skos:broader"
SKOS_prefLabel == "skos:prefLabel"
SKOS_notation == "skos:notation"
MADS_componentList == "mads:componentList"

\* Record.uri
Record_uri(base_uri, scheme_edition_numeric, collection, object) ==
    IF base_uri = None THEN None
    ELSE URIRef(FormatFields(base_uri, [collection |-> collection, object |-> object,
                                        edition |-> scheme_edition_numeric]))

\* Record.parse_008: the tuple returned; raised is the IndexError of a value
\* shorter than the positions read
Record_parse_008(value) ==
    IF value = None
    THEN [record_type |-> None, number_type |-> None, display |-> TRUE, synthesized |-> FALSE,
          raised |-> NoExc]
    ELSE IF Len(value) < 14
    THEN [record_type |-> None, number_type |-> None, display |-> FALSE, synthesized |-> FALSE,
          raised |-> IndexError]
    ELSE [record_type |->
              CASE Char(value, 6) = "a" -> SCHEDULE_RECORD
                [] Char(value, 6) = "b" -> TABLE_RECORD
                [] Char(value, 6) = "e" -> EXTERNAL_SUMMARY
                [] Char(value, 6) = "i" -> INTERNAL_SUMMARY_OF_SCHEDULE_NUMBER
                [] Char(value, 6) = "j" -> INTERNAL_SUMMARY_OF_TABLE_NUMBER
                [] Char(value, 6) = "m" -> MANUAL_NOTE_RECORD
                [] Char(value, 6) = "1" -> SCHEDULE_RECORD
                [] OTHER -> UNKNOWN,
          number_type |->
              CASE Char(value, 7) = "a" -> SINGLE_NUMBER
                [] Char(value, 7) = "b" -> NUMBER_SPAN
                [] Char(value, 7) = "c" -> SUMMARY_NUMBER_SPAN
                [] OTHER -> UNKNOWN,
          synthesized |-> Char(value, 12) = "b",
          display |-> Char(value, 13) = "a",
          raised |-> NoExc]

\* the local variables buf, parts and table of Record.parse_153
Scan(b, parts, t) == [buf |-> b, parts |-> parts, table |-> t, raised |-> NoExc]

\* one iteration of the loop of Record.parse_153 over a subfield with a
\* code in a, c, e, f, z, y
Record_Step153(st, sf) ==
    LET val == sf.value
        flushed == IF st.buf # "" THEN Append(st.parts, st.buf) ELSE st.parts
        started == IF Len(st.parts) = 0 THEN Scan("", Append(st.parts, st.buf), st.table)
                   ELSE st
        next == CASE sf.code = "z" ->
                         Scan(Add(val, "--"), flushed,
                              IF Len(flushed) = 0 THEN val ELSE st.table)
                  [] sf.code = "a" -> Scan(Add(st.buf, val), st.parts, st.table)
                  [] sf.code \in {"c", "f"} ->
                         Scan(Add(st.buf, Add("-", val)), st.parts, st.table)
                  [] sf.code = "e" -> Scan(Add(started.buf, val), started.parts, st.table)
                  [] sf.code = "y" ->
                         Scan(st.buf \o (IF val = "1" THEN ":" ELSE ":" \o Format(val) \o ";"),
                              st.parts, st.table)
    IN IF next.buf = TypeError THEN [st EXCEPT !.raised = TypeError] ELSE next

RECURSIVE Record_Scan153(_, _)
\* the loop of Record.parse_153, left at the first subfield of another code
Record_Scan153(st, subfields) ==
    IF subfields = <<>> \/ st.raised # NoExc THEN st
    ELSE IF Head(subfields).code \notin {"a", "c", "e", "f", "z", "y"} THEN st
    ELSE Record_Scan153(Record_Step153(st, Head(subfields)), Tail(subfields))

\* element.text('mx:subfield[@code="j"]')
TextOf(element, code) ==
    LET at == {k \in 1..Len(element) : element[k].code = code}
    IN IF at = {} THEN None ELSE element[CHOOSE k \in at : \A i \in at : k <= i].value

\* Record.parse_153: the tuple returned; raised is the TypeError of a
\* subfield without text or the IndexError of parts[0] on an empty list
Record_parse_153(element) ==
    LET st == Record_Scan153(Scan("", <<>>, None), element)
        parts == IF st.buf # "" THEN Append(st.parts, st.buf) ELSE st.parts
    IN [table |-> st.table,
        notation |-> IF parts = <<>> THEN None ELSE parts[1],
        is_top_concept |-> Len(parts) = 1 /\ \A k \in 1..Len(element) : element[k].code # "h",
        parent_notation |-> IF Len(parts) > 1 THEN parts[2] ELSE None,
        caption |-> TextOf(element, "j"),
        raised |-> IF st.raised # NoExc THEN st.raised
                   ELSE IF parts = <<>> THEN IndexError
                   ELSE NoExc]

\* the s branch of the loop over the 765 fields: no test of sf.text()
Record_On765S(st, text) ==
    LET tmp == Add(st.rootno, text)
    IN IF tmp = TypeError THEN Raise765(st)
       ELSE [st EXCEPT !.components = Append(@, st.table \o InsertPoint(tmp)), !.table = ""]

Record_Step765(st, sf) ==
    IF sf.code = "s" THEN Record_On765S(st, sf.value) ELSE Step765(st, sf)

RECURSIVE Record_Entry765(_, _)
Record_Entry765(st, subfields) ==
    IF subfields = <<>> \/ st.raised THEN st
    ELSE Record_Entry765(Record_Step765(st, Head(subfields)), Tail(subfields))

RECURSIVE Record_Loop765(_, _)
\* for entry in reversed(...765...), started with the components c
Record_Loop765(c, fields) ==
    IF fields = <<>> THEN St765(c, "", "")
    ELSE LET st == Record_Entry765(St765(c, "", ""), fields[Len(fields)])
         IN IF st.raised THEN st
            ELSE Record_Loop765(st.components, SubSeq(fields, 1, Len(fields) - 1))

\* the attributes of a Record that process_record and add_to_graph read
RecordObject(p008, p153, scheme, edition, base_uri, scheme_uri, table_scheme_uri, c) ==
    [record_type |-> p008.record_type, number_type |-> p008.number_type,
     display |-> p008.display, synthesized |-> p008.synthesized,
     lang |-> "en", scheme |-> scheme, scheme_edition |-> edition,
     scheme_edition_numeric |-> StripNonDigits(Or(edition, "")),
     table |-> p153.table, notation |-> p153.notation,
     is_top_concept |-> p153.is_top_concept, parent_notation |-> p153.parent_notation,
     caption |-> p153.caption,
     base_uri |-> base_uri, scheme_uri |-> scheme_uri, table_scheme_uri |-> table_scheme_uri,
     components |-> c]

\* the exception that Record.__init__, through Record.parse, raises for a
\* record, NoExc when it returns
Record_Raised(record) ==
    IF record.leader = None THEN InvalidRecordError
    ELSE IF Char(record.leader, 6) = IndexError THEN IndexError
    ELSE IF Char(record.leader, 6) # "w" THEN InvalidRecordError
    ELSE IF Record_parse_008(record.f008).raised # NoExc THEN Record_parse_008(record.f008).raised
    ELSE IF record.f153 = <<>> THEN InvalidRecordError
    ELSE IF Record_parse_153(record.f153[1]).raised # NoExc
    THEN Record_parse_153(record.f153[1]).raised
    ELSE IF Record_Loop765(<<>>, record.f765).raised THEN TypeError
    ELSE NoExc

\* Record.__init__ and Record.parse: the object made when they return
Record(record) ==
    LET p008 == Record_parse_008(record.f008)
        p153 == Record_parse_153(record.f153[1])
        guessed == IF p008.record_type # None THEN p008
                   ELSE [p008 EXCEPT !.record_type =
                            IF p153.table = None THEN SCHEDULE_RECORD ELSE TABLE_RECORD]
        numeric == StripNonDigits(Or(record.c084, ""))
        known == record.a084 \in DOMAIN default_uri_templates
        base_uri == IF known THEN default_uri_templates[record.a084].uri ELSE None
    IN RecordObject(guessed, p153, record.a084, record.c084, base_uri,
                    Record_uri(base_uri, numeric, "scheme", "edition"),
                    Record_uri(base_uri, numeric, "table", p153.table),
                    Record_Loop765(<<>>, record.f765).components)

\* the keyword arguments of process_record that the model passes
KwargsOf(base_uri, include_components) ==
    [base_uri |-> base_uri, include_components |-> include_components]

\* the triples of the component list: self.components.pop(0) heads the list
\* and the components left follow, each on a new blank node
ComponentList(self, subject, made) ==
    LET c == self.components
        b(k) == BNode(made + k)
        U(component) == Record_uri(self.base_uri, self.scheme_edition_numeric, "class", component)
    IN {<<subject, MADS_componentList, b(1)>>, <<b(Len(c)), RDF_rest, RDF_nil>>}
           \cup {<<b(k), RDF_first, U(c[k])>> : k \in 1..Len(c)}
           \cup {<<b(k), RDF_rest, b(k + 1)>> : k \in 1..(Len(c) - 1)}

\* NotationLiteral with the T for a record that has a table
NotationLiteral_OfTable(self) ==
    IF self.table # None THEN Literal("T" \o self.notation, None)
    ELSE Literal(self.notation, None)

\* the object of the skos:notation triple
NotationLiteral(self) ==
    IF self.record_type = TABLE_RECORD THEN Literal("T" \o self.notation, None)
    ELSE Literal(self.notation, None)

\* Record.add_to_graph: the triples added, and the record and the count of
\* blank nodes it leaves
add_to_graph(self, kwargs, made) ==
    LET U(object) == Record_uri(self.base_uri, self.scheme_edition_numeric, "class", object)
        this == U(self.notation)
        isTable == self.record_type = TABLE_RECORD /\ self.table_scheme_uri # None
        inScheme == IF self.is_top_concept THEN SKOS_topConceptOf ELSE SKOS_inScheme
        listed == kwargs.include_components /\ Len(self.components) # 0
        ignored == \/ this = None
                   \/ ~self.display /\ ~self.synthesized
                   \/ self.record_type \notin {SCHEDULE_RECORD, TABLE_RECORD}
                   \/ Find(self.notation, ":") # 0
    IN IF ignored THEN [added |-> {}, self |-> self, bnodes |-> made]
       ELSE [added |->
                 {<<this, RDF_type, SKOS_Concept>>}
                     \cup (IF self.scheme_uri # None
                           THEN {<<this, inScheme, self.scheme_uri>>} ELSE {})
                     \cup (IF isTable THEN {<<this, inScheme, self.table_scheme_uri>>} ELSE {})
                     \cup (IF self.parent_notation # None
                           THEN {<<this, SKOS_broader, U(self.parent_notation)>>} ELSE {})
                     \cup (IF self.caption \notin {None, ""}
                           THEN {<<this, SKOS_prefLabel, Literal(self.caption, self.lang)>>}
                           ELSE {})
                     \cup (IF self.notation = "" THEN {}
                           ELSE {<<this, SKOS_notation, NotationLiteral(self)>>})
                     \cup (IF listed THEN ComponentList(self, this, made) ELSE {}),
             self |-> IF listed THEN [self EXCEPT !.components = Tail(@)] ELSE self,
             bnodes |-> IF listed THEN made + Len(self.components) ELSE made]

\* process_record between Record(...) and rec.add_to_graph: a base_uri
\* argument replaces the three URIs of the record
WithKwargs(self, kwargs) ==
    IF kwargs.base_uri \notin {None, ""}
    THEN [self EXCEPT !.base_uri = kwargs.base_uri,
                      !.scheme_uri = None,
                      !.table_scheme_uri = None]
    ELSE self

(***************************************************************************)
(* The records the model reads.                                            *)
(***************************************************************************)
Sub(c, v) == [code |-> c, value |-> v]

\* codes of the subfields drawn for a 153 field; "9" stands for every code
\* that parse_153 has no branch for
Codes153 == {"a", "c", "e", "f", "h", "j", "y", "z", "9"}

\* texts drawn for a subfield of each code; sf.text() is None for an element
\* without text and '' for one that holds only a processing instruction
ValuesOf(c) ==
    CASE c = "z" -> {"3", None}
      [] c = "y" -> {"1", "4"}
      [] c = "a" -> {"8", "", None}
      [] c = "c" -> {"9"}
      [] c = "e" -> {"7", None}
      [] c = "f" -> {"9"}
      [] OTHER -> {"t"}

Alphabet153 == UNION {{Sub(c, v) : v \in ValuesOf(c)} : c \in Codes153}

\* every 153 field of at most n subfields over the alphabet
FieldsUpTo(n) == UNION {[1..k -> Alphabet153] : k \in 0..n}

Opt(b, s) == IF b THEN s ELSE <<>>

\* [z=T,] a=N [,c=M] [,y=Y, a=A] [[,z=T], e=P [,f=Q]]
FormField(T, N, M, Y, A, P, Q, hasZ, hasC, hasY, hasE, hasF) ==
    Opt(hasZ, <<Sub("z", T)>>) \o <<Sub("a", N)>> \o Opt(hasC, <<Sub("c", M)>>)
        \o Opt(hasY, <<Sub("y", Y), Sub("a", A)>>)
        \o Opt(hasE, Opt(hasZ, <<Sub("z", T)>>) \o <<Sub("e", P)>> \o Opt(hasF, <<Sub("f", Q)>>))

FormFields ==
    {FormField("3B", "81", "89", Y, "02", "80", "88", hasZ, hasC, hasY, hasE, hasF) :
        Y \in {"1", "4"}, hasZ \in BOOLEAN, hasC \in BOOLEAN, hasY \in BOOLEAN,
        hasE \in BOOLEAN, hasF \in BOOLEAN}

\* the 153 fields of test/test_153.py (captions shortened)
TestTableAddTableEntry ==
    <<Sub("z", "3B"), Sub("a", "81"), Sub("c", "89"), Sub("y", "1"), Sub("a", "02"),
      Sub("z", "3B"), Sub("e", "81"), Sub("f", "89"), Sub("j", "Anekdoter"),
      Sub("9", "ess=ren"), Sub("9", "ess=reh")>>

TestAddTableEntry ==
    <<Sub("a", "820.1"), Sub("c", "828"), Sub("y", "4"), Sub("a", "1"), Sub("e", "820"),
      Sub("j", "Early period to 1858"), Sub("9", "ess=reb"), Sub("9", "ess=rhb")>>

TestTableEntryOldStyle ==
    <<Sub("z", "6"), Sub("a", "9839"), Sub("h", "Languages"), Sub("h", "Other languages"),
      Sub("j", "Arawakan languages")>>

TestComplexTableEntry ==
    <<Sub("z", "1"), Sub("a", "0926"), Sub("z", "1"), Sub("e", "0923"), Sub("f", "0928"),
      Sub("j", "Samlingsbiografier"), Sub("i", "[tidligere"), Sub("z", "1"),
      Sub("x", "0922"), Sub("i", ","), Sub("z", "1"), Sub("x", "0923"), Sub("i", "]"),
      Sub("9", "ess=ten")>>

TestStandardSubdivisionInfo == <<Sub("a", "973"), Sub("9", "ess=si1")>>

TestExtraSubfields ==
    <<Sub("a", "332.0240081"), Sub("c", "332.0240088"), Sub("e", "332.024001"),
      Sub("f", "332.024009"), Sub("j", "Miscellaneous"), Sub("i", "[formerly"),
      Sub("x", "332.02404"), Sub("c", "332.0249"), Sub("i", "]"), Sub("9", "ess=en")>>

TestSimpleNumber == <<Sub("a", "152"), Sub("e", "152"), Sub("f", "158")>>

\* the two fields of the form above that scenario 2 and testAddTableEntry spell out
Example3B ==
    FormField("3B", "81", "89", "1", "02", "81", "89", TRUE, TRUE, TRUE, TRUE, TRUE)

Example820 ==
    FormField("", "820.1", "828", "4", "1", "820", "", FALSE, TRUE, TRUE, TRUE, FALSE)

TestFields ==
    {Example3B, Example820, TestTableAddTableEntry, TestAddTableEntry, TestTableEntryOldStyle,
     TestComplexTableEntry, TestStandardSubdivisionInfo, TestExtraSubfields,
     TestSimpleNumber,
     <<Sub("a", "973"), Sub("z", "1"), Sub("e", "97")>>,
     <<Sub("z", "6"), Sub("a", "9839"), Sub("e", "98")>>,
     <<Sub("a", "8"), Sub("c", ""), Sub("c", "9")>>}

Fields153 == FieldsUpTo(MaxLen) \cup FormFields \cup TestFields

\* 008 values: a date, then positions 6, 7, 8, the filler 9-11, 12 and 13
Dates008 ==
    {"091203", "100414", "000229", "010229", "091131", "0912 3", "091300", "aaaaaa", "690101"}

Values008 ==
    {d \o c6 \o c7 \o c8 \o "aaa" \o c12 \o c13 :
        d \in Dates008, c6 \in {"a", "b", "e", "i", "j", "m", "1", "x"},
        c7 \in {"a", "b", "c", "n", "x"}, c8 \in {"a", "d", "e"},
        c12 \in {"a", "b"}, c13 \in {"a", "b", "h", "x"}}
    \cup {"091203aaaaaaaaa", "091203aaaaaaa", "0912", ""}

(***************************************************************************)
(* ClassificationRecord.parse, from the 008 field to the guess of the      *)
(* record type.                                                            *)
(***************************************************************************)
\* buf while parse_153 runs: the subfields of the first 153 field
buf == fields153[1]

\* a record as get_from_record reads it
MarcRecord(class, field_008, f040, a084, c084) ==
    [class |-> class, field_008 |-> field_008, f040 |-> f040, a084 |-> a084, c084 |-> c084]

NoRecord == MarcRecord(None, None, None, None, None)

NoKwargs == [collection |-> Absent, object |-> Absent,
             control_number |-> Absent, edition |-> Absent]

\* a call: its name and its arguments; the arguments it does not take are None
Call(op, scheme_code, edition, record, uri_type, kwargs) ==
    [op |-> op, scheme_code |-> scheme_code, edition |-> edition, record |-> record,
     uri_type |-> uri_type, kwargs |-> kwargs]

NoCall == Call(None, None, None, NoRecord, None, NoKwargs)

\* no record read, and an empty graph
NoRec == RecordObject(Record_parse_008(None), Record_parse_153(<<>>), None, None, None, None,
                      None, <<>>)

InitGraph ==
    /\ in_file = <<>>
    /\ main_options = KwargsOf(None, FALSE)
    /\ graph = {}
    /\ bnodes = 0
    /\ pcG = "for_record"
    /\ idxG = 0
    /\ rec = NoRec
    /\ excG = NoExc
    /\ added = {}

\* Vocabularies.__init__, before any call
InitVocabularies ==
    /\ entries = <<>>
    /\ default_scheme = NoScheme
    /\ pcV = "init"
    /\ call = NoCall
    /\ retScheme = NoScheme
    /\ retUri = None
    /\ excV = NoExc

\* self.components = [] of Record.__init__, before the loop
Init765 ==
    /\ components = <<>>
    /\ pc765 = "for_entry"
    /\ entry765 = Len(fields765)
    /\ idx765 = 0
    /\ table765 = None /\ rootno = None

InitRecord ==
    /\ pc = "parse_008"
    /\ exc = NoExc
    /\ idx = 0
    /\ table = None /\ add_table = None /\ notation = None /\ parent_notation = None
    /\ caption = None /\ is_top_concept = FALSE /\ mode = None
    /\ created = None /\ record_type = None /\ number_type = None
    /\ display = None /\ synthesized = None /\ deprecated = FALSE

\* self.created, ... = self.parse_008(value)
Parse008 ==
    /\ pc = "parse_008"
    /\ LET r == parse_008(value008)
       IN IF r.exc # NoExc
          THEN /\ pc' = "raised"
               /\ exc' = r.exc
               /\ UNCHANGED result008
          ELSE /\ pc' = "first_153"
               /\ exc' = exc
               /\ created' = r.created
               /\ record_type' = r.record_type
               /\ number_type' = r.number_type
               /\ display' = r.display
               /\ synthesized' = r.synthesized
               /\ deprecated' = r.deprecated
    /\ UNCHANGED <<value008, fields153, idx, locals153, vars765, varsV, varsG>>

\* element = self.record.first(...); the call of parse_153 up to the loop
First153 ==
    /\ pc = "first_153"
    /\ IF fields153 = <<>>
       THEN /\ pc' = "raised"
            /\ exc' = InvalidRecordError
            /\ UNCHANGED <<idx, locals153>>
       ELSE /\ pc' = "scan_153"
            /\ exc' = exc
            /\ idx' = 0
            /\ table' = Start153.table
            /\ add_table' = Start153.add_table
            /\ notation' = Start153.notation
            /\ parent_notation' = Start153.parent_notation
            /\ caption' = Start153.caption
            /\ is_top_concept' = Start153.is_top_concept
            /\ mode' = Start153.mode
    /\ UNCHANGED <<value008, fields153, result008, vars765, varsV, varsG>>

\* one iteration of `for idx, subfield in enumerate(buf)`
Subfield153 ==
    /\ pc = "scan_153"
    /\ idx < Len(buf)
    /\ LET l == Step153(Locals(table, add_table, notation, parent_notation, caption,
                               is_top_concept, mode), buf[idx + 1])
       IN IF l.raised
          THEN /\ pc' = "raised"
               /\ exc' = TypeError
               /\ UNCHANGED <<idx, locals153>>
          ELSE /\ pc' = pc
               /\ exc' = exc
               /\ idx' = idx + 1
               /\ table' = l.table
               /\ add_table' = l.add_table
               /\ notation' = l.notation
               /\ parent_notation' = l.parent_notation
               /\ caption' = l.caption
               /\ is_top_concept' = l.is_top_concept
               /\ mode' = l.mode
    /\ UNCHANGED <<value008, fields153, result008, vars765, varsV, varsG>>

\* the end of the loop and the return of parse_153 into self.table, ...
Return153 ==
    /\ pc = "scan_153"
    /\ idx = Len(buf)
    /\ LET l == Finish153(Locals(table, add_table, notation, parent_notation, caption,
                                 is_top_concept, mode))
       IN is_top_concept' = l.is_top_concept
    /\ pc' = "guess_type"
    /\ UNCHANGED <<value008, fields153, exc, idx, table, add_table, notation,
                   parent_notation, caption, mode, result008, vars765, varsV, varsG>>

\* GuessedType with the two branches swapped
GuessedType_Swapped(rt, t) ==
    IF rt = None
    THEN (IF t = None THEN TABLE_RECORD ELSE SCHEDULE_RECORD)
    ELSE rt

\* if self.record_type is None: guess it from the table
GuessedType(rt, t) ==
    IF rt = None
    THEN (IF t = None THEN SCHEDULE_RECORD ELSE TABLE_RECORD)
    ELSE rt

GuessType ==
    /\ pc = "guess_type"
    /\ record_type' = GuessedType(record_type, table)
    /\ pc' = "parsed"
    /\ UNCHANGED <<value008, fields153, exc, idx, locals153,
                   created, number_type, display, synthesized, deprecated, vars765, varsV, varsG>>

Next == Parse008 \/ First153 \/ Subfield153 \/ Return153 \/ GuessType

\* records without 008 field, with every 153 field of the model
Init ==
    /\ value008 = None
    /\ fields153 \in {<<f>> : f \in Fields153} \cup {<<>>, <<TestSimpleNumber, TestAddTableEntry>>}
    /\ InitRecord
    /\ fields765 = <<>>
    /\ Init765
    /\ InitVocabularies
    /\ InitGraph

Spec == Init /\ [][Next]_vars

\* records with every 008 value of the model, with a few 153 fields
Init008 ==
    /\ value008 \in Values008 \cup {None}
    /\ fields153 \in {<<>>, <<TestSimpleNumber>>, <<TestTableEntryOldStyle>>,
                      <<TestStandardSubdivisionInfo>>}
    /\ InitRecord
    /\ fields765 = <<>>
    /\ Init765
    /\ InitVocabularies
    /\ InitGraph

Spec008 == Init008 /\ [][Next]_vars

(***************************************************************************)
(* The 765 fields the model reads, and the loop over them.                 *)
(***************************************************************************)
\* codes of the subfields drawn for a 765 field; "u" stands for every code
\* that the loop has no branch for
Codes765 == {"b", "r", "z", "s", "u"}

\* texts drawn for a subfield of each code; sf.text() is None for an element
\* without text
ValuesOf765(c) ==
    CASE c = "b" -> {"299", None}
      [] c = "r" -> {"20", None}
      [] c = "z" -> {"5"}
      [] c = "s" -> {"13", None}
      [] OTHER -> {"t"}

Alphabet765 == UNION {{Sub(c, v) : v \in ValuesOf765(c)} : c \in Codes765}

RECURSIVE FieldLists765(_, _)
\* every list of exactly k fields over the alphabet with at most n subfields in all
FieldLists765(k, n) ==
    IF k = 0 THEN {<<>>}
    ELSE UNION {{<<f>> \o rest : f \in [1..m -> Alphabet765], rest \in FieldLists765(k - 1, n - m)} :
                    m \in 0..n}

\* the 765 fields of test/test_process_record.py
TestComponents1 ==
    <<<<Sub("b", "306.6"), Sub("a", "306.63"), Sub("c", "306.69"), Sub("r", "2"),
        Sub("s", "804"), Sub("u", "306.6804"), Sub("9", "ess=hn")>>>>

TestComponents2 ==
    <<<<Sub("b", "299.31"), Sub("a", "299.31"), Sub("a", "290"), Sub("w", "290"),
        Sub("y", "1"), Sub("a", "1"), Sub("c", "9"), Sub("r", "20"), Sub("s", "13"),
        Sub("u", "299.3113")>>,
      <<Sub("b", "299"), Sub("a", "299.1"), Sub("c", "299.4"), Sub("z", "5"),
        Sub("r", "9"), Sub("s", "31"), Sub("u", "299.31")>>>>

TestFields765 ==
    {TestComponents1, TestComponents2,
     <<<<Sub("r", "200"), Sub("s", "1"), Sub("s", ""), Sub("r", "2"), Sub("s", "8")>>>>,
     <<<<Sub("z", "1"), Sub("b", "032"), Sub("s", "09")>>>>,
     <<<<Sub("w", "290"), Sub("z", None), Sub("r", "20"), Sub("w", "1"), Sub("s", "13")>>,
       <<Sub("s", "13"), Sub("w", "2"), Sub("b", "299")>>>>}

Inputs765 ==
    UNION {FieldLists765(k, MaxSubs765) : k \in 0..MaxFields765} \cup TestFields765

Parse153Idle ==
    UNCHANGED <<value008, fields153, pc, exc, idx, locals153, result008, varsV, varsG>>

\* for entry in reversed(...): table = ''; rootno = ''
NextEntry765 ==
    /\ pc765 = "for_entry"
    /\ entry765 > 0
    /\ pc765' = "for_sf"
    /\ idx765' = 0
    /\ table765' = ""
    /\ rootno' = ""
    /\ UNCHANGED <<fields765, components, entry765>>
    /\ Parse153Idle

\* one iteration of `for sf in entry.all('mx:subfield')`
Subfield765 ==
    /\ pc765 = "for_sf"
    /\ idx765 < Len(fields765[entry765])
    /\ LET st == Step765(St765(components, table765, rootno), fields765[entry765][idx765 + 1])
       IN IF st.raised
          THEN /\ pc765' = "raised"
               /\ UNCHANGED <<components, idx765, table765, rootno>>
          ELSE /\ pc765' = pc765
               /\ components' = st.components
               /\ table765' = st.table
               /\ rootno' = st.rootno
               /\ idx765' = idx765 + 1
    /\ UNCHANGED <<fields765, entry765>>
    /\ Parse153Idle

\* the end of the inner loop: on to the field before this one
EndEntry765 ==
    /\ pc765 = "for_sf"
    /\ idx765 = Len(fields765[entry765])
    /\ pc765' = "for_entry"
    /\ entry765' = entry765 - 1
    /\ UNCHANGED <<fields765, components, idx765, table765, rootno>>
    /\ Parse153Idle

\* the end of the loop over the 765 fields
Done765 ==
    /\ pc765 = "for_entry"
    /\ entry765 = 0
    /\ pc765' = "done"
    /\ UNCHANGED <<fields765, components, entry765, idx765, table765, rootno>>
    /\ Parse153Idle

Next765 == NextEntry765 \/ Subfield765 \/ EndEntry765 \/ Done765

\* the loop over every list of 765 fields of the model; it reads nothing that
\* the steps of parse before it write
InitLoop765 ==
    /\ value008 = None
    /\ fields153 = <<TestSimpleNumber>>
    /\ InitRecord
    /\ fields765 \in Inputs765
    /\ Init765
    /\ InitVocabularies
    /\ InitGraph

Spec765 == InitLoop765 /\ [][Next765]_vars

(***************************************************************************)
(* The vocabulary configuration the model loads, the calls it makes on     *)
(* Vocabularies and ConceptScheme, and their arguments.                     *)
(***************************************************************************)
DeweyConcept == "http://dewey.info/{collection}/{object}/e{edition}/"
DeweyScheme == "http://dewey.info/scheme/edition/e{edition}/"
LcshBase == "http://id.loc.gov/authorities/subjects/{control_number}"
HumordConcept == "http://data.ub.uio.no/humord/c{control_number[1:]}"

\* the parsed configuration file: one scheme with a template per role, one
\* given as a bare template, one without a scheme template and with its own
\* whitespace substitute
YamlData ==
    <<[key |-> "classification_schemes", code |-> "ddc",
       options |-> [dict |-> Options(None, DeweyConcept, DeweyScheme, None)]],
      [key |-> "subject_schemes", code |-> "a",
       options |-> [str |-> LcshBase]],
      [key |-> "subject_schemes", code |-> "humord",
       options |-> [dict |-> Options(None, HumordConcept, None, "_")]]>>

SchemeCodes == {"ddc", "a", "n", "zz", "ddc-23no"}

Editions == {None, "23no"}

Records ==
    {MarcRecord("ClassificationRecord", None, None, "ddc", "23no"),
     MarcRecord("ClassificationRecord", None, None, "ddc", None),
     MarcRecord("ClassificationRecord", None, None, None, None),
     MarcRecord("AuthorityRecord", "990101n| azannaabn", None, None, None),
     MarcRecord("AuthorityRecord", "990101n| azznnaabn", "humord", None, None),
     MarcRecord("AuthorityRecord", "990101n| azznnaabn", None, None, None),
     MarcRecord("AuthorityRecord", "990101", None, None, None),
     MarcRecord("AuthorityRecord", None, None, None, None)}

UriTypes == {"concept", "scheme", "table"}

ControlNumbers ==
    {Absent, None, "(ORG)12345", "(ORG)12)45", "()123", "12345", "HU 1"}

Objects == {Absent, "152", "T1 0901", "a\tb"}

\* the keyword arguments of the calls: those of ClassificationRecord for the
\* class 152, with at most one of them left out or replaced
KwargsSet ==
    {Kwargs(collection, "152", "12345", Absent) : collection \in {Absent, "class"}}
        \cup {Kwargs("class", object, "12345", Absent) : object \in Objects}
        \cup {Kwargs("class", "152", control_number, Absent) : control_number \in ControlNumbers}
        \cup {Kwargs("class", "152", "12345", edition) : edition \in {Absent, "22"}}

RecordIdle ==
    UNCHANGED <<value008, fields153, pc, exc, idx, locals153, result008, vars765, varsG>>

\* vocabularies.load_yaml(file) at startup
LoadYaml ==
    /\ pcV = "init"
    /\ entries' = load_yaml(entries, YamlData)
    /\ pcV' = "loaded"
    /\ UNCHANGED <<default_scheme, call, retScheme, retUri, excV>>
    /\ RecordIdle

\* vocabularies.set_default_scheme(generic, concept, scheme, whitespace)
SetDefaultScheme ==
    /\ pcV = "loaded"
    /\ \E args \in {<<None, None, None, None>>,
                    <<"http://test/{object}", None, None, None>>,
                    <<None, None, "ddc", None>>} :
           default_scheme' = set_default_scheme(entries, args[1], args[2], args[3], args[4])
    /\ UNCHANGED <<entries, pcV, call, retScheme, retUri, excV>>
    /\ RecordIdle

\* the state a get or get_from_record call leaves
Returns(c, out) ==
    /\ call' = c
    /\ entries' = out.entries
    /\ retScheme' = out.scheme
    /\ excV' = out.exc
    /\ retUri' = None
    /\ pcV' = "returned"
    /\ UNCHANGED default_scheme
    /\ RecordIdle

\* vocabularies.get(scheme_code, edition)
Get ==
    /\ pcV = "loaded"
    /\ \E scheme_code \in SchemeCodes, edition \in Editions :
           Returns(Call("get", scheme_code, edition, NoRecord, None, NoKwargs),
                   get(entries, scheme_code, edition))

\* vocabularies.get_from_record(record)
GetFromRecord ==
    /\ pcV = "loaded"
    /\ \E record \in Records :
           Returns(Call("get_from_record", None, None, record, None, NoKwargs),
                   get_from_record(entries, default_scheme, record))

\* scheme.uri(uri_type, **kwargs) on the scheme the call before returned
Uri ==
    /\ pcV = "returned"
    /\ excV = NoExc
    /\ \E uri_type \in UriTypes, kwargs \in KwargsSet :
           LET res == uri(retScheme, uri_type, kwargs)
           IN /\ call' = Call("uri", None, None, NoRecord, uri_type, kwargs)
              /\ excV' = IF IsExc(res) THEN res ELSE NoExc
              /\ retUri' = IF IsExc(res) THEN None ELSE res
    /\ pcV' = "resolved"
    /\ UNCHANGED <<entries, default_scheme, retScheme>>
    /\ RecordIdle

\* the caller takes the result, or handles the exception, and goes on
Consume ==
    /\ pcV \in {"returned", "resolved"}
    /\ pcV' = "loaded"
    /\ call' = NoCall
    /\ retScheme' = NoScheme
    /\ retUri' = None
    /\ excV' = NoExc
    /\ UNCHANGED <<entries, default_scheme>>
    /\ RecordIdle

NextV == LoadYaml \/ SetDefaultScheme \/ Get \/ GetFromRecord \/ Uri \/ Consume

InitV ==
    /\ value008 = None
    /\ fields153 = <<TestSimpleNumber>>
    /\ InitRecord
    /\ fields765 = <<>>
    /\ Init765
    /\ InitVocabularies
    /\ InitGraph

SpecV == InitV /\ [][NextV]_vars

(***************************************************************************)
(* The record loop of main: process_record on every record of the input.   *)
(***************************************************************************)
MaxRecords == 2        \* most records of an input file

\* a record of the input: its leader, its 008 field, its 084 $a and $c, its
\* 153 fields and its 765 fields; None for a text the record does not have
Marc21(leader, f008, a084, c084, f153, f765) ==
    [leader |-> leader, f008 |-> f008, a084 |-> a084, c084 |-> c084,
     f153 |-> f153, f765 |-> f765]

ClassificationLeader == "00000nw  a2200000n  4500"

AuthorityLeader == "00000nz  a2200000n  4500"

\* the 153 fields of test153 and testSynthesizedNumberComponents
Test153 ==
    <<Sub("a", "003.5"), Sub("e", "003"), Sub("h", "Generalities"), Sub("h", "Systems"),
      Sub("j", "Theory of communication and control")>>

TestSynthesized153 ==
    <<Sub("a", "306.6804"), Sub("e", "306.63"), Sub("f", "306.69"), Sub("9", "ess=ien")>>

\* the record of testSynthesizedNumberComponents
TestSynthesized ==
    Marc21(ClassificationLeader, "100204aaaaaabb", "ddc", "23no", <<TestSynthesized153>>,
           TestComponents1)

\* that record with one of its parts replaced or left out, and table records
\* with and without 008 field
RecordsG ==
    {TestSynthesized}
        \cup {[TestSynthesized EXCEPT !.leader = l] : l \in {None, AuthorityLeader, "00000"}}
        \cup {[TestSynthesized EXCEPT !.f008 = v] :
                 v \in {None, "100204baaaaaaa", "100204eaaaaaaa", "100204aaaaaaah"}}
        \cup {[TestSynthesized EXCEPT !.a084 = None, !.c084 = None]}
        \cup {[TestSynthesized EXCEPT !.f153 = f] :
                 f \in {<<>>, <<Test153>>, <<TestTableEntryOldStyle>>, <<TestAddTableEntry>>,
                        <<<<Sub("j", "Caption")>>>>}}
        \cup {[TestSynthesized EXCEPT !.f765 = <<>>]}
        \cup {[TestSynthesized EXCEPT !.f008 = v, !.f153 = <<TestTableEntryOldStyle>>] :
                 v \in {None, "100204baaaaaaa"}}

\* every list of at most n records
FilesUpTo(n) == UNION {[1..k -> RecordsG] : k \in 0..n}

OptionsG ==
    {KwargsOf(base_uri, include_components) :
        base_uri \in {None, "http://test/{object}"}, include_components \in BOOLEAN}

GraphIdle ==
    UNCHANGED <<value008, fields153, pc, exc, idx, locals153, result008, vars765, varsV>>

\* process_record: rec = Record(rec, default_uri_templates)
NewRecord ==
    /\ pcG = "for_record"
    /\ idxG < Len(in_file)
    /\ LET raised == Record_Raised(in_file[idxG + 1])
       IN /\ excG' = raised
          /\ pcG' = IF raised = NoExc THEN "record"
                    ELSE IF raised = InvalidRecordError THEN "except"
                    ELSE "crashed"
          /\ rec' = IF raised = NoExc THEN Record(in_file[idxG + 1]) ELSE NoRec
    /\ UNCHANGED <<in_file, main_options, graph, bnodes, idxG, added>>
    /\ GraphIdle

\* process_record: the base_uri, scheme_uri and table_scheme_uri arguments
SetUris ==
    /\ pcG = "record"
    /\ rec' = WithKwargs(rec, main_options)
    /\ pcG' = "add"
    /\ UNCHANGED <<in_file, main_options, graph, bnodes, idxG, excG, added>>
    /\ GraphIdle

\* process_record: rec.add_to_graph(graph, kwargs)
AddToGraph ==
    /\ pcG = "add"
    /\ LET r == add_to_graph(rec, main_options, bnodes)
       IN /\ graph' = graph \cup r.added
          /\ added' = r.added
          /\ rec' = r.self
          /\ bnodes' = r.bnodes
    /\ pcG' = "added"
    /\ UNCHANGED <<in_file, main_options, idxG, excG>>
    /\ GraphIdle

\* process_record returns and the loop goes on to the next record
NextRecord ==
    /\ pcG = "added"
    /\ idxG' = idxG + 1
    /\ pcG' = "for_record"
    /\ rec' = NoRec
    /\ added' = {}
    /\ UNCHANGED <<in_file, main_options, graph, bnodes, excG>>
    /\ GraphIdle

\* Except that leaves the loop
Except_Break ==
    /\ pcG = "except"
    /\ idxG' = Len(in_file)
    /\ pcG' = "for_record"
    /\ excG' = NoExc
    /\ UNCHANGED <<in_file, main_options, graph, bnodes, rec, added>>
    /\ GraphIdle

\* except InvalidRecordError: pass
Except ==
    /\ pcG = "except"
    /\ idxG' = idxG + 1
    /\ pcG' = "for_record"
    /\ excG' = NoExc
    /\ UNCHANGED <<in_file, main_options, graph, bnodes, rec, added>>
    /\ GraphIdle

\* the loop has read every record
EndOfFile ==
    /\ pcG = "for_record"
    /\ idxG = Len(in_file)
    /\ pcG' = "done"
    /\ UNCHANGED <<in_file, main_options, graph, bnodes, idxG, rec, excG, added>>
    /\ GraphIdle

NextG == NewRecord \/ SetUris \/ AddToGraph \/ NextRecord \/ Except \/ EndOfFile

\* main on every input file of the model, with every set of options
InitG ==
    /\ value008 = None
    /\ fields153 = <<TestSimpleNumber>>
    /\ InitRecord
    /\ fields765 = <<>>
    /\ Init765
    /\ InitVocabularies
    /\ in_file \in FilesUpTo(MaxRecords)
    /\ main_options \in OptionsG
    /\ graph = {}
    /\ bnodes = 0
    /\ pcG = "for_record"
    /\ idxG = 0
    /\ rec = NoRec
    /\ excG = NoExc
    /\ added = {}

SpecG == InitG /\ [][NextG]_vars

(***************************************************************************)
(* Properties.                                                             *)
(***************************************************************************)
KnownCodes == {"a", "c", "e", "f", "h", "j", "y", "z"}

\* parse_153 has returned into self.table, self.notation, ...
Returned153 == pc \in {"guess_type", "parsed"}

\* parse_008 has returned its tuple for a record that has an 008 field
Returned008 == value008 # None /\ pc \notin {"parse_008", "raised"}

HasCode(b, c) == \E k \in 1..Len(b) : b[k].code = c

ValueAt(b, k) == IF k \in 1..Len(b) THEN b[k].value ELSE None

N01(b) == IF b THEN 1 ELSE 0

\* b is the field [z=T,] a=N [,c=M] [,y=Y, a=A] [[,z=T], e=P [,f=Q]] with these parts present
IsForm(b, hasZ, hasC, hasY, hasE, hasF) ==
    LET pN == 1 + N01(hasZ)
        pY == pN + N01(hasC) + 1
        pP == pN + N01(hasC) + 2 * N01(hasY) + N01(hasZ) + 1
    IN /\ \A k \in 1..Len(b) : b[k].value # None
       /\ b = FormField(ValueAt(b, 1), ValueAt(b, pN), ValueAt(b, pN + 1), ValueAt(b, pY),
                        ValueAt(b, pY + 1), ValueAt(b, pP), ValueAt(b, pP + 1),
                        hasZ, hasC, hasY, hasE, hasF)

\* the notation C1 states for such a field
FormNotation(b, hasZ, hasC, hasY) ==
    LET pN == 1 + N01(hasZ)
        pY == pN + N01(hasC) + 1
    IN (IF hasZ THEN b[1].value \o "--" ELSE "") \o b[pN].value
           \o (IF hasC THEN "-" \o b[pN + 1].value ELSE "")
           \o (IF ~hasY THEN ""
               ELSE IF b[pY].value = "1" THEN ":" \o b[pY + 1].value
               ELSE ":" \o b[pY].value \o ";" \o b[pY + 1].value)

\* the parent notation C1 states for such a field
FormParent(b, hasZ, hasC, hasY, hasE, hasF) ==
    LET pP == 1 + N01(hasZ) + N01(hasC) + 2 * N01(hasY) + N01(hasZ) + 1
    IN IF ~hasE THEN None
       ELSE (IF hasZ THEN b[1].value \o "--" ELSE "") \o b[pP].value
                \o (IF hasF THEN "-" \o b[pP + 1].value ELSE "")

\* C1: for a 153 field of the form [z=T,] a=N [,c=M] [,y=Y, a=A] followed by
\* the optional parent part [z=T,] e=P [,f=Q], parse_153 returns, with
\* notation = [T--]N[-M][:A or :Y;A], parent_notation = [T--]P[-Q] and table = T
\* (None without z).
C1_Form153 ==
    fields153 # <<>> =>
        \A hasZ, hasC, hasY, hasE, hasF \in BOOLEAN :
            IsForm(buf, hasZ, hasC, hasY, hasE, hasF) =>
                /\ exc # TypeError
                /\ Returned153 =>
                    /\ notation = FormNotation(buf, hasZ, hasC, hasY)
                    /\ parent_notation = FormParent(buf, hasZ, hasC, hasY, hasE, hasF)
                    /\ table = (IF hasZ THEN buf[1].value ELSE None)

C1_Witness ==
    /\ pc = "parsed"
    /\ buf = Example3B
    /\ table = "3B" /\ notation = "3B--81-89:02" /\ parent_notation = "3B--81-89"

\* C2: once a subfield with a code outside a, c, e, f, h, j, y, z has been
\* scanned, the scan does not raise and notation and parent_notation stay what
\* parse_153 returns for the field cut off just before that subfield.
C2_OtherFreezes ==
    fields153 # <<>> =>
        \A k \in 1..idx :
            buf[k].code \notin KnownCodes =>
                /\ exc = NoExc
                /\ notation = parse_153(SubSeq(buf, 1, k - 1)).notation
                /\ parent_notation = parse_153(SubSeq(buf, 1, k - 1)).parent_notation

C2_Witness ==
    /\ pc = "parsed"
    /\ notation # None /\ parent_notation # None
    /\ \E k \in 1..Len(buf) :
          /\ buf[k].code \notin KnownCodes
          /\ \E i \in (k + 1)..Len(buf) : buf[i].code = "c"

\* C3: when parse_153 returns, is_top_concept is True if and only if
\* parent_notation is None and the field has no h subfield.
C3_TopConcept ==
    Returned153 =>
        (is_top_concept <=> (parent_notation = None /\ ~HasCode(buf, "h")))

C3_Witness ==
    /\ pc = "parsed"
    /\ HasCode(buf, "h") /\ parent_notation = None /\ ~is_top_concept

\* subfield k ends the notation and parent modes: a code without a branch, an
\* f that no e precedes, or an a or c that an e precedes
LeavesModes(b, k) ==
    \/ b[k].code \notin KnownCodes
    \/ b[k].code = "f" /\ ~\E j \in 1..(k - 1) : b[j].code = "e"
    \/ b[k].code \in {"a", "c"} /\ \E j \in 1..(k - 1) : b[j].code = "e"

\* C4 as stated: the returned parent_notation is None exactly when the field
\* has no e subfield at any position.
C4_AnyE ==
    Returned153 => (parent_notation = None <=> ~HasCode(buf, "e"))

\* C4: the returned parent_notation is None exactly when no e subfield comes
\* before the first subfield that ends the notation and parent modes (a code
\* outside a, c, e, f, h, j, y, z, an f before every e, an a or c after an e).
C4_ScannedE ==
    Returned153 =>
        (parent_notation = None <=>
            ~\E k \in 1..Len(buf) :
                /\ buf[k].code = "e"
                /\ \A j \in 1..(k - 1) : ~LeavesModes(buf, j))

C4_Witness ==
    /\ pc = "parsed"
    /\ parent_notation = None
    /\ HasCode(buf, "e")

BeforeFirstA(b) ==
    {k \in 1..Len(b) : \A j \in 1..k : b[j].code # "a"}

\* C6: the returned table is None unless a z subfield precedes the first a
\* subfield, and is the value of that z when one does.
C6_TableBeforeA ==
    Returned153 =>
        LET zs == {k \in BeforeFirstA(buf) : buf[k].code = "z"}
        IN IF zs = {} THEN table = None
           ELSE table = buf[CHOOSE k \in zs : \A j \in zs : j <= k].value

\* C7: without an 008 field parse_008 returns created None, record_type None,
\* number_type None, display True, synthesized False, deprecated False, and
\* parse then makes record_type the table record if parse_153 returned a
\* table and the schedule record otherwise.
C7_No008 ==
    value008 = None /\ pc # "parse_008" =>
        /\ exc \notin {ValueError, IndexError}
        /\ created = None /\ number_type = None
        /\ display = TRUE /\ synthesized = FALSE /\ deprecated = FALSE
        /\ pc \in {"first_153", "scan_153", "guess_type"} => record_type = None
        /\ pc = "parsed" =>
              record_type = (IF table # None THEN TABLE_RECORD ELSE SCHEDULE_RECORD)

C7_Witness ==
    /\ value008 = None
    /\ pc = "parsed"
    /\ table = "6"
    /\ record_type = TABLE_RECORD

\* C8: record_type is decided by position 6 alone, number_type by position 7,
\* deprecated by position 8 (d or e) and synthesized by position 12 (b).
C8_Positions ==
    Returned008 =>
        LET c6 == Char(value008, 6)
            c7 == Char(value008, 7)
        IN /\ record_type =
                 (CASE c6 \in {"a", "1"} -> "schedule_record"
                    [] c6 = "b" -> "table_record"
                    [] c6 = "e" -> "external_summary"
                    [] c6 = "i" -> "internal_summary_of_schedule_number"
                    [] c6 = "j" -> "internal_summary_of_table_number"
                    [] c6 = "m" -> "manual_note_record"
                    [] OTHER -> "unknown")
           /\ number_type =
                 (CASE c7 = "a" -> "single_number"
                    [] c7 = "b" -> "number_span"
                    [] c7 = "c" -> "summary_number_span"
                    [] OTHER -> "unknown")
           /\ deprecated <=> Char(value008, 8) \in {"d", "e"}
           /\ synthesized <=> Char(value008, 12) = "b"

C8_Witness ==
    /\ pc = "parsed"
    /\ value008 = "091203xxeaaabx"
    /\ record_type = UNKNOWN /\ number_type = UNKNOWN /\ deprecated /\ synthesized

\* C9: parse_008 raises for no 008 value of at least 14 characters.
C9_NeverRaises ==
    value008 # None /\ Len(value008) >= 14 => exc \notin {ValueError, IndexError}

Done765Loop == pc765 = "done"

RECURSIVE Flat765(_)
\* the subfields of the fields in the order the loop scans them
Flat765(fields) ==
    IF fields = <<>> THEN <<>>
    ELSE fields[Len(fields)] \o Flat765(SubSeq(fields, 1, Len(fields) - 1))

IsB(sf) == sf.code = "b"

IsSWithText(sf) == sf.code = "s" /\ sf.value # None

IsBOrSWithText(sf) == IsB(sf) \/ IsSWithText(sf)

Documented765(sf) == sf.code \in {"b", "r", "z", "s"}

RECURSIVE OnlyDocumented765(_)
\* the fields without their subfields other than b, r, z and s
OnlyDocumented765(fields) ==
    IF fields = <<>> THEN <<>>
    ELSE <<SelectSeq(Head(fields), Documented765)>> \o OnlyDocumented765(Tail(fields))

RECURSIVE StripPoints(_)
StripPoints(str) ==
    IF Len(str) = 0 THEN ""
    ELSE (IF SubSeq(str, 1, 1) = "." THEN "" ELSE SubSeq(str, 1, 1))
             \o StripPoints(SubSeq(str, 2, Len(str)))

EndsWith(str, suffix) ==
    /\ Len(suffix) <= Len(str)
    /\ SubSeq(str, Len(str) - Len(suffix) + 1, Len(str)) = suffix

\* the subfields that contribute a component: a b when it is the first of the
\* b and valued s subfields scanned, and every valued s
Contributors765(fields) ==
    LET bs == SelectSeq(Flat765(fields), IsBOrSWithText)
    IN (IF bs # <<>> /\ IsB(bs[1]) THEN <<bs[1]>> ELSE <<>>) \o SelectSeq(bs, IsSWithText)

ScansS765(sf) ==
    /\ pc765 = "for_sf"
    /\ idx765' = idx765 + 1
    /\ sf = fields765[entry765][idx765']
    /\ IsSWithText(sf)

\* the component appended, without its table prefix
Appended765 ==
    LET c == components'[Len(components')]
    IN SubSeq(c, Len(table765) + 1, Len(c))

\* C12: a valued s appends table prefix + t, t being rootno + value with a
\* '.' after the third character exactly when it is longer than three
\* characters; the loops of the tests give '280.4', '201.3' and '5--931'.
C12_SComponent ==
    [][/\ \A sf \in Alphabet765 \cup {Sub("s", v) : v \in {"804", "31", "1", "", "8", "09"}} :
              ScansS765(sf) =>
                  LET t == rootno \o sf.value
                  IN components' =
                         Append(components,
                                table765 \o (IF Len(t) > 3
                                             THEN Prefix(t, 3) \o "." \o SubSeq(t, 4, Len(t))
                                             ELSE t))
       /\ ScansS765(Sub("s", "804")) /\ rootno = "2" => components' = Append(components, "280.4")
       /\ ScansS765(Sub("s", "13")) /\ rootno = "20" /\ table765 = ""
              => components' = Append(components, "201.3")
       /\ ScansS765(Sub("s", "31")) /\ rootno = "9" /\ table765 = "5--"
              => components' = Append(components, "5--931")]_vars

C12_Witness ==
    /\ Done765Loop
    /\ fields765 = TestComponents1
    /\ components = <<"306.6", "280.4">>

\* C13 as stated: the component of a valued s has a point after its third
\* character exactly when the root number is three characters long.
C13_RootLength3 ==
    [][\A sf \in {Sub("s", v) : v \in {"13", "804", "31", "1", "", "8", "09"}} :
           ScansS765(sf) => (Char(Appended765, 3) = "." <=> Len(rootno) = 3)]_vars

\* C13: the component of a valued s has a point after its third character
\* exactly when root number and value together are longer than three
\* characters.
C13_LongerThan3 ==
    [][\A sf \in {Sub("s", v) : v \in {"13", "804", "31", "1", "", "8", "09"}} :
           ScansS765(sf) =>
               /\ Char(Appended765, 3) = "." <=> Len(rootno) + Len(sf.value) > 3
               /\ StripPoints(Appended765) = rootno \o sf.value]_vars

C13_Witness ==
    /\ pc765 = "for_sf"
    /\ idx765 = 3
    /\ fields765 = <<<<Sub("b", "299"), Sub("r", "20"), Sub("s", "13")>>>>
    /\ components = <<"299", "201.3">>

\* C14: the loop over the 765 fields raises for no list of fields.
C14_NeverRaises == pc765 # "raised"

(***************************************************************************)
(* Properties of ConceptScheme.uri and Vocabularies.                       *)
(***************************************************************************)
Resolved == pcV = "resolved"

\* the uri call of the state ended as res says: raised it, or returned it
Outcome_Is(res) ==
    IF IsExc(res) THEN excV = res /\ retUri = None
    ELSE excV = NoExc /\ retUri = res

HoldsNoTemplate(scheme, uri_type) ==
    \/ uri_type \notin DOMAIN scheme.uri_templates
    \/ scheme.uri_templates[uri_type] = None

\* C15: a uri call for a role the scheme holds no template for raises
\* UnknownSchemeError and returns no URI.
C15_UnknownScheme ==
    Resolved /\ HoldsNoTemplate(retScheme, call.uri_type) =>
        excV = UnknownSchemeError /\ retUri = None

\* C16: a uri call for the 'scheme' role ends the same way whatever control
\* number is passed or left out, and {control_number} becomes ''.
C16_SchemeUri ==
    Resolved /\ call.uri_type = "scheme" =>
        /\ \A cn \in ControlNumbers :
               Outcome_Is(uri(retScheme, "scheme", [call.kwargs EXCEPT !.control_number = cn]))
        /\ retScheme.uri_templates.scheme = LcshBase /\ excV = NoExc =>
               retUri = "http://id.loc.gov/authorities/subjects/"

C16_Witness ==
    /\ Resolved
    /\ call.uri_type = "scheme"
    /\ retScheme.code = "a"
    /\ call.kwargs.control_number = "(ORG)12345"
    /\ retUri = "http://id.loc.gov/authorities/subjects/"

\* C17: a uri call ends the same way whatever edition the caller passes, and
\* {edition} becomes the digits of the scheme's edition: 'e23' for '23no',
\* 'e' for a scheme without edition.
C17_Edition ==
    Resolved =>
        /\ \A ed \in {Absent, "22", "23no"} :
               Outcome_Is(uri(retScheme, call.uri_type, [call.kwargs EXCEPT !.edition = ed]))
        /\ (/\ call.uri_type = "concept"
            /\ retScheme.uri_templates.concept = DeweyConcept
            /\ call.kwargs.collection = "class" /\ call.kwargs.object = "152")
               => /\ retScheme.edition = "23no" => retUri = "http://dewey.info/class/152/e23/"
                  /\ retScheme.edition = None => retUri = "http://dewey.info/class/152/e/"

C17_Witness ==
    /\ Resolved
    /\ call.uri_type = "concept"
    /\ retScheme.edition = "23no"
    /\ call.kwargs = Kwargs("class", "152", "12345", "22")
    /\ retUri = "http://dewey.info/class/152/e23/"

\* C18: in a uri call for the 'concept' role, a control number '(' + org + ')'
\* + id is substituted as id, and one without such a prefix as it is.
C18_OrganizationPrefix ==
    (/\ Resolved
     /\ call.uri_type = "concept"
     /\ retScheme.uri_templates.concept = LcshBase
     /\ excV = NoExc)
        => /\ \A org \in {"ORG", ""}, id \in {"12345", "12)45", "123"} :
                  call.kwargs.control_number = "(" \o org \o ")" \o id
                      => retUri = "http://id.loc.gov/authorities/subjects/" \o id
           /\ call.kwargs.control_number = "12345"
                  => retUri = "http://id.loc.gov/authorities/subjects/12345"

\* C19: the URI a uri call returns contains no whitespace.
C19_NoWhitespace ==
    Resolved /\ excV = NoExc => Find(retUri, " ") = 0 /\ Find(retUri, "\t") = 0

\* C20: once load_yaml has run, no call changes Vocabularies.entries.
C20_EntriesReadOnly == [][pcV # "init" => entries' = entries]_vars

(***************************************************************************)
(* Properties of the markers of parse_153 and of the display flag.         *)
(***************************************************************************)
\* subfield k is scanned in notation mode: no subfield before it leaves it
InNotationMode(b, k) ==
    \A j \in 1..(k - 1) : b[j].code \in {"a", "c", "h", "j", "y", "z"}

\* subfield k is scanned in notation or parent mode
InParentMode(b, k) == \A j \in 1..(k - 1) : ~LeavesModes(b, j)

\* the subfields of code c before k that no a or e between them and k has used
PendingAt(b, k, c) ==
    {j \in 1..(k - 1) :
        /\ b[j].code = c /\ b[j].value # None
        /\ \A i \in (j + 1)..(k - 1) : b[i].code \notin {"a", "e"}}

\* the value of the last of them
LastPending(b, k, c) ==
    b[CHOOSE j \in PendingAt(b, k, c) : \A i \in PendingAt(b, k, c) : i <= j].value

\* the scan stands right behind subfield k, or raised on it
Scanned153(k) == pc = "scan_153" /\ idx = k

RaisedOn153(k) == pc = "raised" /\ exc = TypeError /\ idx = k - 1

\* C25: an a subfield scanned in notation mode with both a table and an add
\* table pending does not fail and makes the notation table + '--' + value.
C25_TablePriority ==
    fields153 # <<>> =>
        \A k \in 1..Len(buf) :
            (/\ buf[k].code = "a" /\ buf[k].value # None
             /\ InNotationMode(buf, k)
             /\ PendingAt(buf, k, "z") # {}
             /\ PendingAt(buf, k, "y") # {})
                => /\ ~RaisedOn153(k)
                   /\ Scanned153(k) => notation = LastPending(buf, k, "z") \o "--" \o buf[k].value

\* the parent notation an e subfield k starts when it prepends as an a does
ParentAsA(b, k) ==
    (IF PendingAt(b, k, "y") # {}
     THEN (IF LastPending(b, k, "y") = "1" THEN ":"
           ELSE ":" \o LastPending(b, k, "y") \o ";")
     ELSE IF PendingAt(b, k, "z") # {} THEN LastPending(b, k, "z") \o "--"
     ELSE "") \o b[k].value

\* C26: an e subfield prepends a pending marker as an a subfield does: ':'
\* for the add table 1, ':Y;' for another add table Y, 'T--' for a table T.
C26_ParentMarker ==
    fields153 # <<>> =>
        \A k \in 1..Len(buf) :
            (/\ buf[k].code = "e" /\ buf[k].value # None
             /\ InParentMode(buf, k)
             /\ PendingAt(buf, k, "y") # {} \/ PendingAt(buf, k, "z") # {}
             /\ Scanned153(k))
                => parent_notation = ParentAsA(buf, k)

\* C27: an e subfield that follows an a which used the table starts the
\* parent notation without table prefix unless a z comes between them:
\* z=6, a=9839, e=98 gives '98'; z=1, a=0926, z=1, e=0923, f=0928 gives
\* '1--0923-0928'.
C27_TableConsumed ==
    fields153 # <<>> =>
        /\ \A k \in 1..Len(buf) :
               (/\ buf[k].code = "e" /\ buf[k].value # None
                /\ InParentMode(buf, k)
                /\ PendingAt(buf, k, "y") = {}
                /\ \E j \in 1..(k - 1) :
                       /\ buf[j].code = "a" /\ buf[j].value # None
                       /\ PendingAt(buf, j, "z") # {}
                       /\ \A i \in (j + 1)..(k - 1) : buf[i].code # "e"
                /\ Scanned153(k))
                   => parent_notation = ParentAsA(buf, k)
        /\ Returned153 /\ buf = <<Sub("z", "6"), Sub("a", "9839"), Sub("e", "98")>>
               => parent_notation = "98"
        /\ Returned153 /\ buf = TestComplexTableEntry => parent_notation = "1--0923-0928"

Scans765(sf) ==
    /\ pc765 = "for_sf"
    /\ idx765' = idx765 + 1
    /\ sf = fields765[entry765][idx765']

Appends765 == Len(components') = Len(components) + 1

\* what a z subfield sets, and how long the prefix lives: a component
\* appended starts with the prefix of the last z of the field and uses it up,
\* an iteration that appends nothing keeps it, and the next field starts
\* without prefix
Prefix765(sf) ==
    /\ sf.code = "z" => table765' = Format(sf.value) \o "--"
    /\ Appends765 =>
           /\ Prefix(components'[Len(components')], Len(table765)) = table765
           /\ SubSeq(components', 1, Len(components)) = components
           /\ table765' = ""
    /\ ~Appends765 =>
           /\ components' = components
           /\ sf.code # "z" => table765' = table765

NewField765 == pc765 = "for_entry" /\ pc765' = "for_sf" => table765' = ""

SubfieldsOf765 == UNION {{f[k] : k \in 1..Len(f)} : f \in UNION {{l[i] : i \in 1..Len(l)} : l \in Inputs765}}

\* C28 as stated: the prefix set by a z goes onto the next component of an s
\* of the same field only: a base number (b) is appended without it, one
\* component at most uses it, and it does not reach another field.
C28_OnlySComponent ==
    [][/\ \A sf \in SubfieldsOf765 :
              Scans765(sf) =>
                  /\ Prefix765(sf)
                  /\ sf.code = "b" /\ Appends765 => components' = Append(components, sf.value)
       /\ NewField765]_vars

\* C28: the prefix set by a z goes onto the next component the same field
\* appends, that of a valued s or that of the base number (b) which starts the
\* list; one component at most uses it, and it does not reach another field.
C28_NextComponent ==
    [][/\ \A sf \in SubfieldsOf765 :
              Scans765(sf) =>
                  /\ Prefix765(sf)
                  /\ sf.code = "b" /\ Appends765
                         => components' = Append(components, table765 \o sf.value)
       /\ NewField765]_vars

C28_Witness ==
    /\ Done765Loop
    /\ fields765 = <<<<Sub("z", "1"), Sub("b", "032"), Sub("s", "09")>>>>
    /\ components = <<"1--032", "09">>

(***************************************************************************)
(* Properties of Vocabularies.get over a sequence of calls.                *)
(***************************************************************************)
\* the schemes loaded from the configuration, before any get call
Loaded == load_yaml(<<>>, YamlData)

\* C30: after any earlier get calls, get(code, edition) raises
\* UnknownSchemeError exactly when the code is 'n' or not a code loaded from
\* the configuration, and else returns a scheme with the code and the edition
\* requested, the loaded scheme itself for the edition None; the outcome is
\* that of the same call made before any other.
C30_GetOutcome ==
    pcV = "returned" /\ call.op = "get" =>
        LET unknown == call.scheme_code = "n" \/ call.scheme_code \notin DOMAIN Loaded
            first == get(Loaded, call.scheme_code, call.edition)
        IN /\ excV = (IF unknown THEN UnknownSchemeError ELSE NoExc)
           /\ ~unknown =>
                  /\ retScheme.code = call.scheme_code
                  /\ retScheme.edition = call.edition
                  /\ call.edition = None => retScheme = Loaded[call.scheme_code]
           /\ retScheme = first.scheme
           /\ excV = first.exc

(***************************************************************************)
(* The grammar of the notation read backwards.                             *)
(***************************************************************************)
\* the place of the first '--' of str, 0 without one
FindTable(str) ==
    LET at == {i \in 1..(Len(str) - 1) : SubSeq(str, i, i + 1) = "--"}
    IN IF at = {} THEN 0 ELSE CHOOSE i \in at : \A k \in at : i <= k

RECURSIVE Split(_, _)
\* str.split(ch)
Split(str, ch) ==
    LET i == Find(str, ch)
    IN IF i = 0 THEN <<str>>
       ELSE <<SubSeq(str, 1, i - 1)>> \o Split(SubSeq(str, i + 1, Len(str)), ch)

\* number[-end[-end]]: the number and the span ends
SpanParts(str) ==
    LET parts == Split(str, "-")
    IN <<Sub("a", parts[1])>> \o [k \in 1..(Len(parts) - 1) |-> Sub("c", parts[k + 1])]

\* what follows a ':': [add table;]number, the add table being 1 without ';'
AddTableParts(str) ==
    LET i == Find(str, ";")
    IN IF i = 0 THEN <<Sub("y", "1")>> \o SpanParts(str)
       ELSE <<Sub("y", SubSeq(str, 1, i - 1))>> \o SpanParts(SubSeq(str, i + 1, Len(str)))

RECURSIVE AllAddTableParts(_)
AllAddTableParts(strs) ==
    IF strs = <<>> THEN <<>>
    ELSE AddTableParts(Head(strs)) \o AllAddTableParts(Tail(strs))

\* the notation split on '--', then ':', then ';', then '-': the parts it is
\* made of, each with the code of the subfield that gives such a part
PartsOf(str) ==
    LET i == FindTable(str)
        rest == IF i = 0 THEN str ELSE SubSeq(str, i + 2, Len(str))
        parts == Split(rest, ":")
    IN (IF i = 0 THEN <<>> ELSE <<Sub("z", SubSeq(str, 1, i - 1))>>)
           \o SpanParts(Head(parts)) \o AllAddTableParts(Tail(parts))

RECURSIVE IsRecovered(_, _)
\* every element of t is an element of s of its own
IsRecovered(t, s) ==
    IF t = <<>> THEN TRUE
    ELSE LET at == {k \in 1..Len(s) : s[k] = Head(t)}
         IN /\ at # {}
            /\ LET k == CHOOSE i \in at : TRUE
               IN IsRecovered(Tail(t), SubSeq(s, 1, k - 1) \o SubSeq(s, k + 1, Len(s)))

IsGiven(sf) == sf.code \in {"z", "y", "a", "c"} /\ sf.value # None

\* the z, y, a and c subfields the scan reads in notation mode
Given153(b) ==
    LET m == Cardinality({k \in 1..Len(b) : InNotationMode(b, k + 1)})
    IN SelectSeq(SubSeq(b, 1, m), IsGiven)

SeparatorFree(value) ==
    Find(value, "-") = 0 /\ Find(value, ":") = 0 /\ Find(value, ";") = 0

SeparatorFree153(b) ==
    \A k \in 1..Len(b) : IsGiven(b[k]) => SeparatorFree(b[k].value)

\* C23 as stated: the notation returned for a field of separator-free values,
\* split on '--', ':', ';' and '-', gives the table, the add tables, the
\* numbers and the span ends that z, y, a and c subfields of the field give.
C23_RoundTrip ==
    Returned153 /\ fields153 # <<>> /\ notation # None /\ SeparatorFree153(buf) =>
        IsRecovered(PartsOf(notation), Given153(buf))

EmptySpanEnd(b) == \E k \in 1..Len(b) : b[k].code = "c" /\ b[k].value = ""

\* C23: the notation returned for a field of separator-free values whose c
\* subfields are not empty, split on '--', ':', ';' and '-', gives the table,
\* the add tables, the numbers and the span ends that z, y, a and c subfields
\* of the field give.
C23_NonEmptySpanEnd ==
    Returned153 /\ fields153 # <<>> /\ notation # None /\ SeparatorFree153(buf)
                /\ ~EmptySpanEnd(buf) =>
        IsRecovered(PartsOf(notation), Given153(buf))

C23_Witness ==
    /\ pc = "parsed"
    /\ buf = Example3B
    /\ notation = "3B--81-89:02"
    /\ PartsOf(notation) = <<Sub("z", "3B"), Sub("a", "81"), Sub("c", "89"), Sub("y", "1"),
                             Sub("a", "02")>>

(***************************************************************************)
(* Properties of the record loop and of add_to_graph.                      *)
(***************************************************************************)
\* a record without leader, with a leader whose position 6 is not w, or
\* without 153 field
Invalid21(record) ==
    \/ record.leader = None
    \/ Len(record.leader) > 6 /\ Char(record.leader, 6) # "w"
    \/ record.f153 = <<>>

NotInvalid21(record) == ~Invalid21(record)

RECURSIVE Emitted(_, _, _, _)
\* the graph and the count of blank nodes that process_record on every record
\* of a list leaves, from the graph g and the count made, up to the first
\* exception other than InvalidRecordError
Emitted(g, made, list, kwargs) ==
    IF list = <<>> THEN [graph |-> g, bnodes |-> made]
    ELSE LET raised == Record_Raised(Head(list))
             r == add_to_graph(WithKwargs(Record(Head(list)), kwargs), kwargs, made)
         IN IF raised = InvalidRecordError THEN Emitted(g, made, Tail(list), kwargs)
            ELSE IF raised # NoExc THEN [graph |-> g, bnodes |-> made]
            ELSE Emitted(g \cup r.added, r.bnodes, Tail(list), kwargs)

\* C21: process_record raises InvalidRecordError for a record without
\* leader, with a leader whose position 6 is not w, or without 153 field, and
\* adds no triple; the loop goes on to the next record, and the graph it has
\* built when it comes to a record, or to the end, is the graph of the
\* records before without the invalid ones.
C21_InvalidSkipped ==
    [][/\ pcG = "for_record" /\ idxG < Len(in_file) /\ Invalid21(in_file[idxG + 1])
           => /\ pcG' = "except" /\ excG' = InvalidRecordError
              /\ graph' = graph /\ bnodes' = bnodes
       /\ pcG = "except"
           => pcG' = "for_record" /\ idxG' = idxG + 1 /\ graph' = graph /\ bnodes' = bnodes
       /\ pcG' \in {"for_record", "done"}
           => <<graph', bnodes'>> =
                  LET e == Emitted({}, 0, SelectSeq(SubSeq(in_file, 1, idxG'), NotInvalid21),
                                   main_options)
                  IN <<e.graph, e.bnodes>>]_vars

C21_Witness ==
    /\ pcG = "done"
    /\ Len(in_file) = 2
    /\ in_file[1] = [TestSynthesized EXCEPT !.f153 = <<>>]
    /\ in_file[2] = TestSynthesized
    /\ <<"<http://dewey.info/class/306.6804/e23/>", SKOS_notation, "'306.6804'">> \in graph

\* C22: add_to_graph leaves the components list of the record as it is, with
\* and without the include_components option.
C22_ComponentsKept == [][pcG = "add" => rec'.components = rec.components]_vars

\* the skos:notation literals that the add_to_graph call of the step adds
NotationsAdded == {t[3] : t \in {u \in added' : u[2] = SKOS_notation}}

\* the record that the add_to_graph call of the step emits
Emits(record) ==
    /\ pcG = "add"
    /\ record = in_file[idxG + 1]
    /\ added' # {}

OfTypeTable(record) ==
    IF record.f008 = None THEN record.f153[1][1].code = "z"
    ELSE Char(record.f008, 6) = "b"

====
